---- MODULE Spec2Model ----
(***************************************************************************)
(* Model of the container-backup orchestrator.                             *)
(*                                                                         *)
(*   SpecLock  - workers contending for one service's on-disk lock         *)
(*               (backup_manager.py: _run_backup_with_lock,                *)
(*               run_backup_for_service, _create_lock, _create_new_lock,   *)
(*               _remove_lock).                                            *)
(*                                                                         *)
(* Time is counted in hours.  A lock file is a record whose field `kind`   *)
(* says what json.loads makes of its content; `writer` is a ghost field    *)
(* naming the worker that wrote it.                                        *)
(***************************************************************************)
EXTENDS Integers, Sequences, FiniteSets, TLC

\* ------------------------------------------------------------------ bounds
MaxTicks == 2

\* ------------------------------------------------------- program constants
\* 3 * 3600 seconds, in hours
StaleAfter == 3
\* BACKUP_RETENTION_DAYS default
DefaultRetentionDays == 7
HoursPerDay == 24

StartTime == (DefaultRetentionDays + 2) * HoursPerDay

\* ------------------------------------------------------------ name spaces
Services == {"app", "app_db"}
\* names as they may be spelled in environment variables
Names == Services \cup {"App"}
\* str.lower()
Lower(n) == IF n = "App" THEN "app" ELSE IF n = "WordPress" THEN "wordpress" ELSE n

\* worker ids: tasks of the run_backups wave, and direct callers
WaveTasks == {"t1", "t2"}
Contenders == {"p", "q"}
AllWorkers == WaveTasks \cup Contenders
NoWorker == "none"

\* process ids.  NoPid is the 0 that lock_data.get('pid', 0) yields.
NoPid == "0"
MgrPid == "P1"
OtherPid == "P2"
\* a live process the caller may signal, a live process of another user,
\* and a pid that no longer exists
ExtPid == "Pext"
RootPid == "Proot"
DeadPid == "Pdead"
AlivePids == {MgrPid, OtherPid, ExtPid, RootPid}
ForeignPids == {RootPid}

VARIABLES
    now,          \* wall clock, hours
    lockFile,     \* [Services -> content of <backup_dir>/locks/<s>.lock]
    archives,     \* set of archive files [dir, service, ts]
    backup_dir,   \* BACKUP_DIR
    selfNames,    \* BACKUP_SERVICE_NAMES, split and stripped
    excludeNames, \* EXCLUDE_FROM_BACKUP, split and stripped
    hostname,     \* socket.gethostname()
    pc,           \* [AllWorkers -> position of the worker]
    wService,     \* [AllWorkers -> service the worker backs up]
    wPid,         \* [AllWorkers -> os.getpid() of the worker's process]
    wEntry,       \* [AllWorkers -> "with_lock" | "for_service"]
    result,       \* [AllWorkers -> "none" | "true" | "false" | "raised"]
    lkTime,       \* [AllWorkers -> time.time() taken by _create_new_lock]
    bkTime,       \* [AllWorkers -> datetime.now() taken by backup()]
    bkOutcome,    \* [AllWorkers -> how service.backup() ended]
    acquired,     \* ghost: the worker's _create_lock returned a path
    seen,         \* ghost: what _create_lock found when it read the lock
    \* ---- run_backups (the manager thread of process MgrPid)
    mpc,          \* position of run_backups
    queue,        \* tasks submitted to the executor, not yet picked up
    results,      \* [Services -> "none" | "true" | "false"]
    max_workers,  \* size of the thread pool
    priority,     \* [Services -> global.priority]
    serviceArg,   \* the service_names argument ({} when None)
    cfgRetention, \* [Services -> retention keys of the service's global config]
    policy,       \* retention_config['services'], NoPolicy where unset
    rootLocks,    \* contents of the *.lock files directly under backup_dir
    activeSet,    \* active_backups computed by apply_policy
    retTodo,      \* services apply_policy has still to process
    removedCount  \* removed_count of apply_policy

\* ServiceBackup.backup of one service
VARIABLES ppc, containers, running, runningAtEntry, cfgRequiresStopping,
          backup_method, requires_stopping, stopped_containers, success,
          dbTodo, success_count, trace, retval
\* the service config passed to it: database.requires_stopping and
\* files.requires_stopping (cfgRequiresStopping is the key 'requires_stopping'
\* of the config itself, False when absent)
VARIABLES cfgDatabaseStopping, cfgFilesStopping

\* direct calls of the RetentionManager operations
VARIABLES lastOp     \* ghost: the last retention call, its arguments, the files before it
\* service discovery: the stack names in the order of the dict, the container
\* looked at, the name returned for it, and the position of the call
VARIABLES stacks, container, service_name, dpc
\* ConfigurationManager: the stored sources, the service asked for, whether
\* containers were passed, the config returned, the sources as loaded (ghost)
VARIABLES file_configs, env_configs, custom_configs, cfgService,
          cfgContainers, config, cfgLoaded, cpc

lockVars == <<now, lockFile, archives, backup_dir, selfNames, excludeNames,
              hostname, pc, wService, wPid, wEntry, result, lkTime, bkTime,
              bkOutcome, acquired, seen>>

mgrVars == <<mpc, queue, results, max_workers, priority, serviceArg,
             cfgRetention, policy, rootLocks, activeSet, retTodo, removedCount>>

pipeVars == <<ppc, containers, running, runningAtEntry, cfgRequiresStopping,
              backup_method, requires_stopping, stopped_containers, success,
              dbTodo, success_count, trace, retval, cfgDatabaseStopping,
              cfgFilesStopping>>

discVars == <<stacks, container, service_name, dpc>>

\* PortainerClient._make_request: position in the call, the loop index, the
\* session.request calls made (exception class or ok, HTTP requests sent),
\* the delays slept, whether a fresh cache entry exists, the value returned
VARIABLES rpc, manual_attempt, attempts, slept, cached, response

reqVars == <<rpc, manual_attempt, attempts, slept, cached, response>>

\* env-reference resolution: the env map in dict order, the function called,
\* its result, the result of calling it again on that result
VARIABLES env_vars, resolver, resolved_vars, resolvedAgain, epc

envVars == <<env_vars, resolver, resolved_vars, resolvedAgain, epc>>

\* DatabaseBackup: the flavor, the credentials, whether /data/dump.rdb can
\* be archived, the credential keys put on the dump command line, whether
\* the dump command was executed in the container, the value returned
VARIABLES db_type, credentials, rdbFile, cmdKeys, executed, dumpRet, qpc

dumpVars == <<db_type, credentials, rdbFile, cmdKeys, executed, dumpRet, qpc>>

\* the Docker client of get_docker_client: DOCKER_READ_ONLY, the containers
\* of the daemon and those of them that run, the container objects the
\* caller holds, and the last call with the state before it (ghost)
VARIABLES read_only, existing, status, obtained, lastCall

dockVars == <<read_only, existing, status, obtained, lastCall>>

\* create_tar_gz: the position of the call, what is at output_file and at
\* output_file + ".tmp", the files to add and those added, the step that
\* raised, the value returned
VARIABLES tpc, finalFile, tmpFile, file_count, processed, failedAt, tarRet

tarVars == <<tpc, finalFile, tmpFile, file_count, processed, failedAt, tarRet>>

\* schedule mode: the flag, the main thread, the scheduler thread, the event,
\* the backup intervals elapsed and the one the next wave is due at, the
\* pipeline of the wave in flight (its worker thread, its lock, the
\* containers it stopped, its return value) and what is known of it: who
\* started the wave, when the first wave started, whether a signal arrived
\* while it was in flight
VARIABLES no_initial_backup, mainPc, thrPc, shutdown_event, elapsed, dueAt,
          jobPc, jobLock, jobStopped, jobRet, waveBy, firstWaveAt, sigInFlight

schedVars == <<no_initial_backup, mainPc, thrPc, shutdown_event, elapsed,
               dueAt, jobPc, jobLock, jobStopped, jobRet, waveBy, firstWaveAt,
               sigInFlight>>

cfgVars == <<file_configs, env_configs, custom_configs, cfgService,
             cfgContainers, config, cfgLoaded, cpc>>

\* the variables of the further components
extVars == <<cfgVars, reqVars, envVars, dumpVars, schedVars, tarVars, dockVars>>

auxVars == <<lastOp, discVars, extVars>>

vars == <<lockVars, mgrVars, pipeVars, auxVars>>

\* --------------------------------------------------------- lock contents
NoFile == [kind |-> "absent", pid |-> NoPid, timestamp |-> 0, writer |-> NoWorker]
\* open(lock_path, 'w') has truncated the file, nothing written yet
EmptyFile == [kind |-> "empty", pid |-> NoPid, timestamp |-> 0, writer |-> NoWorker]
\* text that json.loads rejects (old format, corrupted)
GarbageFile == [kind |-> "garbage", pid |-> NoPid, timestamp |-> 0, writer |-> NoWorker]
\* valid JSON that is no lock record: not an object, or an object whose
\* pid / timestamp is not a number
BadShapeFile == [kind |-> "json_badshape", pid |-> NoPid, timestamp |-> 0, writer |-> NoWorker]

LockRecord(p, t, w) == [kind |-> "record", pid |-> p, timestamp |-> t, writer |-> w]

\* os.kill(pid, 0)
KillProbe(pid) ==
    IF pid \notin AlivePids THEN "ESRCH"
    ELSE IF pid \in ForeignPids THEN "EPERM"
    ELSE "ok"

\* process_running as _create_lock computes it for a parsed record
ProcessRunning(content, w) ==
    /\ content.pid # NoPid
    /\ content.pid # wPid[w]
    /\ KillProbe(content.pid) = "ok"

\* the staleness test of _create_lock
IsStale(content, w) ==
    \/ now - content.timestamp > StaleAfter
    \/ ~ProcessRunning(content, w)

\* as IsBackupService, without the comparison with BACKUP_SERVICE_NAMES
IsBackupService_HostnameOnly(s) ==
    Lower(hostname) = Lower(s)

\* BackupManager._is_backup_service
IsBackupService(s) ==
    \/ Lower(hostname) = Lower(s)
    \/ Lower(s) \in {Lower(n) : n \in selfNames}

\* BackupManager._is_excluded_service
IsExcludedService(s) ==
    Lower(s) \in {Lower(n) : n \in excludeNames}

\* ------------------------------------------------------- worker actions
Svc(w) == wService[w]

\* tasks of the wave that a pool thread is executing
ActiveTasks == {t \in WaveTasks : pc[t] \notin {"idle", "queued", "done"}}

\* a direct caller runs at once; a submitted task runs when it is at the
\* head of the executor's queue and a pool thread is free
Runnable(w) ==
    IF w \in WaveTasks
    THEN /\ pc[w] = "queued"
         /\ queue # <<>>
         /\ Head(queue) = w
         /\ Cardinality(ActiveTasks) < max_workers
    ELSE pc[w] = "ready"

Dequeue(w) == IF w \in WaveTasks THEN Tail(queue) ELSE queue

\* _run_backup_with_lock up to the call of _create_lock
RunBackupWithLockStart(w) ==
    /\ wEntry[w] = "with_lock"
    /\ Runnable(w)
    /\ queue' = Dequeue(w)
    /\ IF IsBackupService(Svc(w)) \/ IsExcludedService(Svc(w))
       THEN /\ pc' = [pc EXCEPT ![w] = "done"]
            /\ result' = [result EXCEPT ![w] = "true"]
       ELSE /\ pc' = [pc EXCEPT ![w] = "cl_exists"]
            /\ UNCHANGED result
    /\ UNCHANGED <<now, lockFile, archives, backup_dir, selfNames, excludeNames,
                   hostname, wService, wPid, wEntry, lkTime, bkTime, bkOutcome,
                   acquired, seen>>
    /\ UNCHANGED <<mpc, results, max_workers, priority, serviceArg,
                   cfgRetention, policy, rootLocks, activeSet, retTodo,
                   removedCount>>
    /\ UNCHANGED pipeVars
    /\ UNCHANGED auxVars

\* run_backup_for_service up to the call of _create_lock; the service is
\* looked up among the discovered ones
RunBackupForServiceStart(w) ==
    /\ wEntry[w] = "for_service"
    /\ pc[w] = "ready"
    /\ UNCHANGED queue
    /\ IF Svc(w) \in Services \ {n \in Services : IsExcludedService(n)}
       THEN /\ pc' = [pc EXCEPT ![w] = "cl_exists"]
            /\ UNCHANGED result
       ELSE /\ pc' = [pc EXCEPT ![w] = "done"]
            /\ result' = [result EXCEPT ![w] = "false"]
    /\ UNCHANGED <<now, lockFile, archives, backup_dir, selfNames, excludeNames,
                   hostname, wService, wPid, wEntry, lkTime, bkTime, bkOutcome,
                   acquired, seen>>
    /\ UNCHANGED <<mpc, results, max_workers, priority, serviceArg,
                   cfgRetention, policy, rootLocks, activeSet, retTodo,
                   removedCount>>
    /\ UNCHANGED pipeVars
    /\ UNCHANGED auxVars

\* what a worker step leaves alone besides pc, lockFile and its own fields
WorkerFrame ==
    /\ UNCHANGED <<now, backup_dir, selfNames, excludeNames, hostname,
                   wService, wPid, wEntry>>
    /\ UNCHANGED mgrVars
    /\ UNCHANGED pipeVars
    /\ UNCHANGED auxVars

\* _create_lock: lock_path.exists()
CreateLockExists(w) ==
    /\ pc[w] = "cl_exists"
    /\ pc' = [pc EXCEPT ![w] =
                IF lockFile[Svc(w)].kind = "absent" THEN "cl_open" ELSE "cl_read"]
    /\ UNCHANGED <<lockFile, archives, result, lkTime, bkTime, bkOutcome,
                   acquired, seen>>
    /\ WorkerFrame

\* where _create_lock goes after open/read/json.loads and the staleness test
AfterRead(content, w) ==
    CASE content.kind = "absent" -> "cl_handler"
      [] content.kind \in {"empty", "garbage"} -> "cl_remove"
      [] content.kind = "json_badshape" -> "raise"
      [] content.kind = "record" ->
            IF IsStale(content, w) THEN "cl_remove" ELSE "refuse"

\* ghost: the facts about the lock file at the moment it is read
Observation(content) ==
    [kind |-> content.kind,
     pid |-> content.pid,
     old |-> content.kind = "record" /\ now - content.timestamp > StaleAfter]
NotRead == [kind |-> "unread", pid |-> NoPid, old |-> FALSE]

\* _create_lock: read the existing lock file and decide
CreateLockRead(w) ==
    /\ pc[w] = "cl_read"
    /\ LET content == lockFile[Svc(w)]
           next == AfterRead(content, w)
       IN /\ seen' = [seen EXCEPT ![w] = Observation(content)]
          /\ pc' = [pc EXCEPT ![w] =
                      IF next \in {"raise", "refuse"} THEN "done" ELSE next]
          /\ result' = [result EXCEPT ![w] =
                      CASE next = "raise" -> "raised"
                        [] next = "refuse" -> "false"
                        [] OTHER -> @]
    /\ UNCHANGED <<lockFile, archives, lkTime, bkTime, bkOutcome, acquired>>
    /\ WorkerFrame

\* _create_lock: os.remove(lock_path) of a lock judged stale; a file that
\* has vanished raises FileNotFoundError, which the outer handler catches
CreateLockRemove(w) ==
    /\ pc[w] = "cl_remove"
    /\ IF lockFile[Svc(w)].kind = "absent"
       THEN /\ pc' = [pc EXCEPT ![w] = "cl_handler"]
            /\ UNCHANGED lockFile
       ELSE /\ pc' = [pc EXCEPT ![w] = "cl_open"]
            /\ lockFile' = [lockFile EXCEPT ![Svc(w)] = NoFile]
    /\ UNCHANGED <<archives, result, lkTime, bkTime, bkOutcome, acquired,
                   seen>>
    /\ WorkerFrame

\* _create_lock: the except handler removes the file if it exists
CreateLockHandler(w) ==
    /\ pc[w] = "cl_handler"
    /\ lockFile' = [lockFile EXCEPT ![Svc(w)] = NoFile]
    /\ pc' = [pc EXCEPT ![w] = "cl_open"]
    /\ UNCHANGED <<archives, result, lkTime, bkTime, bkOutcome, acquired,
                   seen>>
    /\ WorkerFrame

\* _create_new_lock: build lock_data, open(lock_path, 'w')
CreateNewLockOpen(w) ==
    /\ pc[w] = "cl_open"
    /\ lkTime' = [lkTime EXCEPT ![w] = now]
    /\ lockFile' = [lockFile EXCEPT ![Svc(w)] = EmptyFile]
    /\ pc' = [pc EXCEPT ![w] = "cl_write"]
    /\ UNCHANGED <<archives, result, bkTime, bkOutcome, acquired, seen>>
    /\ WorkerFrame

\* _create_new_lock: f.write(json.dumps(lock_data)), return lock_path
CreateNewLockWrite(w) ==
    /\ pc[w] = "cl_write"
    /\ lockFile' = [lockFile EXCEPT ![Svc(w)] = LockRecord(wPid[w], lkTime[w], w)]
    /\ acquired' = [acquired EXCEPT ![w] = TRUE]
    /\ lkTime' = [lkTime EXCEPT ![w] = 0]
    /\ pc' = [pc EXCEPT ![w] = "locked"]
    /\ UNCHANGED <<archives, result, bkTime, bkOutcome, seen>>
    /\ WorkerFrame

\* run_backup_for_service: the backup service itself is skipped after the
\* lock was taken
ForServiceSelfSkip(w) ==
    /\ pc[w] = "locked"
    /\ wEntry[w] = "for_service"
    /\ IsBackupService(Svc(w))
    /\ result' = [result EXCEPT ![w] = "true"]
    /\ pc' = [pc EXCEPT ![w] = "rm_exists"]
    /\ UNCHANGED <<lockFile, archives, lkTime, bkTime, bkOutcome, acquired,
                   seen>>
    /\ WorkerFrame

\* service.backup() is entered: timestamp = datetime.now()
ServiceBackupEnter(w) ==
    /\ pc[w] = "locked"
    /\ wEntry[w] = "for_service" => ~IsBackupService(Svc(w))
    /\ bkTime' = [bkTime EXCEPT ![w] = now]
    /\ pc' = [pc EXCEPT ![w] = "backup"]
    /\ UNCHANGED <<lockFile, archives, result, lkTime, bkOutcome, acquired,
                   seen>>
    /\ WorkerFrame

\* how service.backup() can end
BackupOutcomes == {"archived", "true_no_archive", "false", "raised"}

\* ServiceBackup._create_archive writes below the literal "/backups"
ArchiveFile(s, t) == [dir |-> "/backups", service |-> s, ts |-> t]

\* as ServiceBackupReturn, but the lock is released only when backup()
\* returns: an exception leaves the caller without running _remove_lock
ServiceBackupReturn_NoFinally(w) ==
    /\ pc[w] = "backup"
    /\ \E o \in BackupOutcomes :
          /\ bkOutcome' = [bkOutcome EXCEPT ![w] = o]
          /\ archives' = IF o = "archived"
                          THEN archives \cup {ArchiveFile(Svc(w), bkTime[w])}
                          ELSE archives
          /\ result' = [result EXCEPT ![w] =
                          IF o \in {"archived", "true_no_archive"}
                          THEN "true" ELSE "false"]
          /\ pc' = [pc EXCEPT ![w] = IF o = "raised" THEN "done" ELSE "rm_exists"]
    /\ bkTime' = [bkTime EXCEPT ![w] = 0]
    /\ UNCHANGED <<lockFile, lkTime, acquired, seen>>
    /\ WorkerFrame

\* service.backup() returns or raises; the caller turns an exception into
\* False
ServiceBackupReturn(w) ==
    /\ pc[w] = "backup"
    /\ \E o \in BackupOutcomes :
          /\ bkOutcome' = [bkOutcome EXCEPT ![w] = o]
          /\ archives' = IF o = "archived"
                          THEN archives \cup {ArchiveFile(Svc(w), bkTime[w])}
                          ELSE archives
          /\ result' = [result EXCEPT ![w] =
                          IF o \in {"archived", "true_no_archive"}
                          THEN "true" ELSE "false"]
    /\ bkTime' = [bkTime EXCEPT ![w] = 0]
    /\ pc' = [pc EXCEPT ![w] = "rm_exists"]
    /\ UNCHANGED <<lockFile, lkTime, acquired, seen>>
    /\ WorkerFrame

\* _remove_lock: lock_path.exists()
RemoveLockExists(w) ==
    /\ pc[w] = "rm_exists"
    /\ pc' = [pc EXCEPT ![w] =
                IF lockFile[Svc(w)].kind = "absent" THEN "done" ELSE "rm_remove"]
    /\ UNCHANGED <<lockFile, archives, result, lkTime, bkTime, bkOutcome,
                   acquired, seen>>
    /\ WorkerFrame

\* _remove_lock: os.remove(lock_path); a failure is logged and swallowed
RemoveLockRemove(w) ==
    /\ pc[w] = "rm_remove"
    /\ lockFile' = [lockFile EXCEPT ![Svc(w)] = NoFile]
    /\ pc' = [pc EXCEPT ![w] = "done"]
    /\ UNCHANGED <<archives, result, lkTime, bkTime, bkOutcome, acquired,
                   seen>>
    /\ WorkerFrame

\* the clock advances
Tick ==
    /\ now < StartTime + MaxTicks
    /\ now' = now + 1
    /\ UNCHANGED <<lockFile, archives, backup_dir, selfNames, excludeNames,
                   hostname, pc, wService, wPid, wEntry, result, lkTime, bkTime,
                   bkOutcome, acquired, seen>>
    /\ UNCHANGED mgrVars
    /\ UNCHANGED pipeVars
    /\ UNCHANGED auxVars

WorkerStep(w) ==
    \/ RunBackupWithLockStart(w)
    \/ RunBackupForServiceStart(w)
    \/ CreateLockExists(w)
    \/ CreateLockRead(w)
    \/ CreateLockRemove(w)
    \/ CreateLockHandler(w)
    \/ CreateNewLockOpen(w)
    \/ CreateNewLockWrite(w)
    \/ ForServiceSelfSkip(w)
    \/ ServiceBackupEnter(w)
    \/ ServiceBackupReturn(w)
    \/ RemoveLockExists(w)
    \/ RemoveLockRemove(w)

\* ---------------------------------------------------------------- SpecLock
\* the service of the i-th task of a wave: the discovery order
TaskService == [t \in WaveTasks |-> IF t = "t1" THEN "app" ELSE "app_db"]

\* lock files a previous run, an older version or a crash may have left
OldStamps == {StartTime - StaleAfter - 1, StartTime - StaleAfter + 1}
PreLocks ==
    {NoFile, GarbageFile, BadShapeFile}
    \cup {LockRecord(p, t, "ext") :
            p \in {NoPid, DeadPid, ExtPid, RootPid, MgrPid}, t \in OldStamps}

NoPolicy == [kind |-> "default", n |-> 0, daily |-> 0, weekly |-> 0, monthly |-> 0]

\* the manager is not running
MgrOff ==
    /\ mpc = "off"
    /\ queue = <<>>
    /\ results = [s \in Services |-> "none"]
    /\ max_workers = 1
    /\ priority = [s \in Services |-> 50]
    /\ serviceArg = {}
    /\ cfgRetention = [s \in Services |-> NoPolicy]
    /\ policy = [s \in Services |-> NoPolicy]
    /\ rootLocks = {}
    /\ activeSet = {}
    /\ retTodo = {}
    /\ removedCount = 0

\* no retention operation has been called directly
NoOp == [kind |-> "none", s |-> "", n |-> 0, daily |-> 0, weekly |-> 0,
         monthly |-> 0, before |-> {}, raised |-> FALSE,
         prevDays |-> -1, prevRemoved |-> 0]
\* no container is being named
NoContainer == [name |-> <<>>, labels |-> <<>>]
DiscOff ==
    /\ stacks = <<>>
    /\ container = NoContainer
    /\ service_name = <<>>
    /\ dpc = "off"
\* no configuration is being asked for
CfgOff ==
    /\ file_configs = <<>>
    /\ env_configs = <<>>
    /\ custom_configs = <<>>
    /\ cfgService = ""
    /\ cfgContainers = FALSE
    /\ config = <<>>
    /\ cfgLoaded = <<>>
    /\ cpc = "off"
\* no registry request is being made
ReqOff ==
    /\ rpc = "off"
    /\ manual_attempt = 0
    /\ attempts = <<>>
    /\ slept = <<>>
    /\ cached = FALSE
    /\ response = "unset"
\* no env map is being resolved
EnvOff ==
    /\ env_vars = <<>>
    /\ resolver = "none"
    /\ resolved_vars = <<>>
    /\ resolvedAgain = <<>>
    /\ epc = "off"
\* no database is being dumped
DumpOff ==
    /\ db_type = "none"
    /\ credentials = <<>>
    /\ rdbFile = FALSE
    /\ cmdKeys = {}
    /\ executed = FALSE
    /\ dumpRet = "unset"
    /\ qpc = "off"
\* the process is not in schedule mode
SchedOff ==
    /\ no_initial_backup = FALSE
    /\ mainPc = "off"
    /\ thrPc = "off"
    /\ shutdown_event = FALSE
    /\ elapsed = 0
    /\ dueAt = 0
    /\ jobPc = "idle"
    /\ jobLock = FALSE
    /\ jobStopped = {}
    /\ jobRet = "unset"
    /\ waveBy = "none"
    /\ firstWaveAt = -1
    /\ sigInFlight = FALSE
\* no create_tar_gz call
TarOff ==
    /\ tpc = "off"
    /\ finalFile = "absent"
    /\ tmpFile = "absent"
    /\ file_count = 0
    /\ processed = 0
    /\ failedAt = "none"
    /\ tarRet = "unset"
\* no Docker client
NoCall ==
    [op |-> "none", target |-> "none", outcome |-> "none",
     existingBefore |-> {}, statusBefore |-> {}]
DockOff ==
    /\ read_only = TRUE
    /\ existing = {}
    /\ status = {}
    /\ obtained = {}
    /\ lastCall = NoCall
ExtOff == CfgOff /\ ReqOff /\ EnvOff /\ DumpOff /\ SchedOff /\ TarOff /\ DockOff
AuxOff == lastOp = NoOp /\ DiscOff /\ ExtOff

\* no ServiceBackup.backup is followed step by step
PipeOff ==
    /\ ppc = "off"
    /\ containers = <<>>
    /\ running = {}
    /\ runningAtEntry = {}
    /\ cfgRequiresStopping = FALSE
    /\ cfgDatabaseStopping = FALSE
    /\ cfgFilesStopping = FALSE
    /\ backup_method = "mounts"
    /\ requires_stopping = FALSE
    /\ stopped_containers = <<>>
    /\ success = TRUE
    /\ dbTodo = <<>>
    /\ success_count = 0
    /\ trace = <<>>
    /\ retval = "none"

WorkerFieldsInit ==
    /\ result = [w \in AllWorkers |-> "none"]
    /\ lkTime = [w \in AllWorkers |-> 0]
    /\ bkTime = [w \in AllWorkers |-> 0]
    /\ bkOutcome = [w \in AllWorkers |-> "none"]
    /\ acquired = [w \in AllWorkers |-> FALSE]
    /\ seen = [w \in AllWorkers |-> NotRead]

\* two callers, threads of one process or two processes, back up "app"
InitLock ==
    /\ now = StartTime
    /\ \E pre \in PreLocks :
          lockFile = [s \in Services |-> IF s = "app" THEN pre ELSE NoFile]
    /\ archives = {}
    /\ backup_dir = "/backups"
    /\ selfNames \in {{}, {"App"}}
    /\ excludeNames = {}
    /\ hostname = "bkhost"
    /\ pc = [w \in AllWorkers |-> IF w \in Contenders THEN "ready" ELSE "idle"]
    /\ wService = [w \in AllWorkers |->
                     IF w \in Contenders THEN "app" ELSE TaskService[w]]
    /\ \E qpid \in {MgrPid, OtherPid} :
          wPid = [w \in AllWorkers |-> IF w = "q" THEN qpid ELSE MgrPid]
    /\ \E qe \in {"with_lock", "for_service"} :
          wEntry = [w \in AllWorkers |-> IF w = "q" THEN qe ELSE "with_lock"]
    /\ WorkerFieldsInit
    /\ MgrOff
    /\ PipeOff
    /\ AuxOff

NextLock ==
    \/ \E w \in Contenders : WorkerStep(w)
    \/ Tick

SpecLock == InitLock /\ [][NextLock]_vars

\* ------------------------------------------------------ retention engine
\* Hour 0 is Monday 2024-12-16 00:00, the first day of ISO week 2024-W51;
\* the model stays within December 2024 and January 2025.
EpochYear == 2024
EpochWeek == 51
EpochDayOfMonth == 16
DaysInDecember == 31
WeeksInYear == 52
\* the ts of a file whose name the filename pattern does not match
NoTs == -1
\* re.match(self.filename_pattern, name) and strptime succeed
ValidName(a) == a.ts # NoTs

\* days since hour 0; the order of strftime("%Y-%m-%d")
DayKey(a) == a.ts \div HoursPerDay
\* timestamp.year
YearOf(d) == IF d + EpochDayOfMonth <= DaysInDecember THEN EpochYear ELSE EpochYear + 1
\* timestamp.strftime('%V'), the ISO week number
IsoWeek(d) ==
    LET w == EpochWeek + d \div 7
    IN IF w <= WeeksInYear THEN w ELSE w - WeeksInYear
\* f"{timestamp.year}-W{timestamp.strftime('%V')}": calendar year, ISO week;
\* year * 100 + week orders as the strings do
WeekKey(a) == YearOf(DayKey(a)) * 100 + IsoWeek(DayKey(a))
\* timestamp.strftime("%Y-%m")
MonthKey(a) ==
    YearOf(DayKey(a)) * 100
        + (IF YearOf(DayKey(a)) = EpochYear THEN 12 ELSE 1)

\* service names split at "_"
Segs(n) == IF n = "app_db" THEN <<"app", "db">> ELSE <<n>>
\* the file name of an archive of service t matches the glob "<s>_*.tar.gz"
GlobPrefix(s, t) ==
    /\ Len(Segs(s)) <= Len(Segs(t))
    /\ SubSeq(Segs(t), 1, Len(Segs(s))) = Segs(s)

\* the *.tar.gz files of the backup directory
InBackupDir == {a \in archives : a.dir = backup_dir}

\* RetentionManager._get_service_backups over a set of files
GetServiceBackupsIn(files, s) ==
    {a \in files : a.dir = backup_dir /\ GlobPrefix(s, a.service)}
GetServiceBackups(s) == GetServiceBackupsIn(archives, s)

\* RetentionManager._group_backups_by_service: the keys of the grouping
GroupKeys == {a.service : a \in {b \in InBackupDir : ValidName(b)}}

\* RetentionManager._get_active_backups: the names read from the *.lock
\* files directly under backup_dir that are existing files
GetActiveBackups ==
    {a \in InBackupDir : [service |-> a.service, ts |-> a.ts] \in rootLocks}

Min(a, b) == IF a < b THEN a ELSE b

\* as TimeBasedRemovedIn, with the archive at the cutoff removed too
TimeBasedRemovedIn_AtCutoff(files, s, days, active) ==
    IF days <= 0 THEN {}
    ELSE {a \in GetServiceBackupsIn(files, s) \ active :
             ValidName(a) /\ a.ts <= now - days * HoursPerDay}

\* RetentionManager.apply_time_based_retention: the files it removes
TimeBasedRemovedIn(files, s, days, active) ==
    IF days <= 0 THEN {}
    ELSE {a \in GetServiceBackupsIn(files, s) \ active :
             ValidName(a) /\ a.ts < now - days * HoursPerDay}
TimeBasedRemoved(s, days, active) == TimeBasedRemovedIn(archives, s, days, active)

\* apply_count_based_retention: sorted() compares the keys of all files;
\* the key of an invalid name is None and comparing it raises TypeError
CountBasedRaises(files, s, count) ==
    LET m == GetServiceBackupsIn(files, s)
    IN /\ count > 0
       /\ Cardinality(m) >= 2
       /\ \E a \in m : ~ValidName(a)

\* RetentionManager.apply_count_based_retention: the sets of files it may
\* remove; archives with equal timestamps sort in directory order
CountBasedRemovalsIn(files, s, count, active) ==
    IF count <= 0 \/ CountBasedRaises(files, s, count) THEN {{}}
    ELSE LET m == GetServiceBackupsIn(files, s)
             keeps == {k \in SUBSET m :
                         /\ Cardinality(k) = Min(count, Cardinality(m))
                         /\ \A x \in k, y \in m \ k : x.ts >= y.ts}
         IN {(m \ k) \ active : k \in keeps}
CountBasedRemovals(s, count, active) == CountBasedRemovalsIn(archives, s, count, active)

\* the n largest keys
TopKeys(keys, n) == {k \in keys : Cardinality({j \in keys : j > k}) < n}

\* the first archive of each timestamp in directory order
TieBreaks(m) ==
    {w \in SUBSET m : \A a \in m : Cardinality({b \in w : b.ts = a.ts}) = 1}

\* the newest archive of each of the n most recent buckets
NewestPerBucket(key, n, m, w) ==
    LET top == TopKeys({key[a] : a \in m}, n)
    IN {a \in w : /\ key[a] \in top
                  /\ \A b \in m : key[b] = key[a] => a.ts >= b.ts}

\* RetentionManager.apply_mixed_retention: the sets of files it may remove.
\* Files with an invalid name are in no bucket, so never in to_keep.
MixedRemovalsIn(files, s, daily, weekly, monthly, active) ==
    LET all == GetServiceBackupsIn(files, s)
        m == {a \in all : ValidName(a)}
    IN {(all \ (NewestPerBucket([a \in m |-> DayKey(a)], daily, m, w)
                \cup NewestPerBucket([a \in m |-> WeekKey(a)], weekly, m, w)
                \cup NewestPerBucket([a \in m |-> MonthKey(a)], monthly, m, w))) \ active :
          w \in TieBreaks(m)}
MixedRemovals(s, daily, weekly, monthly, active) ==
    MixedRemovalsIn(archives, s, daily, weekly, monthly, active)

\* RetentionManager.apply_policy, the branch taken for one service; an
\* exception of the branch is caught and nothing is removed
PolicyRemovals(s, pol, active) ==
    CASE pol.kind = "mixed" ->
            MixedRemovals(s, pol.daily, pol.weekly, pol.monthly, active)
      [] pol.kind = "days" -> {TimeBasedRemoved(s, pol.n, active)}
      [] pol.kind = "count" -> CountBasedRemovals(s, pol.n, active)
      [] OTHER -> {TimeBasedRemoved(s, DefaultRetentionDays, active)}

\* ------------------------------------------------------------ run_backups
TaskOf(s) == CHOOSE t \in WaveTasks : TaskService[t] = s
\* position of the service in the discovery result
TaskIndex(t) == IF t = "t1" THEN 1 ELSE 2

\* as SortedTasks, without the sort: the discovery order
SortedTasks_DiscoveryOrder(S) ==
    CHOOSE q \in [1..Cardinality(S) -> S] :
        /\ \A i, j \in 1..Cardinality(S) : i # j => q[i] # q[j]
        /\ \A i, j \in 1..Cardinality(S) : i < j => TaskIndex(q[i]) < TaskIndex(q[j])

\* services.sort(key=priority): a stable sort of the discovery order
SortedTasks(S) ==
    CHOOSE q \in [1..Cardinality(S) -> S] :
        /\ \A i, j \in 1..Cardinality(S) : i # j => q[i] # q[j]
        /\ \A i, j \in 1..Cardinality(S) :
              i < j => \/ priority[TaskService[q[i]]] < priority[TaskService[q[j]]]
                       \/ /\ priority[TaskService[q[i]]] = priority[TaskService[q[j]]]
                          /\ TaskIndex(q[i]) < TaskIndex(q[j])

\* discover_services, then the service_names filter
Requested ==
    LET discovered == {s \in Services : ~IsExcludedService(s)}
    IN IF serviceArg # {} THEN discovered \cap serviceArg ELSE discovered

\* the services left after the BACKUP_SERVICE_NAMES filter
Dispatched == {s \in Requested : s \notin selfNames}

\* _update_retention_config
UpdateRetentionConfig(S) ==
    [s \in Services |->
        IF s \in S /\ cfgRetention[s].kind # "default"
        THEN cfgRetention[s] ELSE policy[s]]

MgrFrame ==
    /\ UNCHANGED <<now, lockFile, backup_dir, selfNames, excludeNames, hostname,
                   wService, wPid, wEntry, result, lkTime, bkTime, bkOutcome,
                   acquired, seen, max_workers, priority, serviceArg,
                   cfgRetention, rootLocks>>
    /\ UNCHANGED pipeVars
    /\ UNCHANGED auxVars

\* run_backups up to the submission of the tasks
RunBackupsStart ==
    /\ mpc = "idle"
    /\ IF Requested = {}
       THEN /\ mpc' = "done"
            /\ UNCHANGED <<pc, queue, policy>>
       ELSE /\ mpc' = "wave"
            /\ policy' = UpdateRetentionConfig(Dispatched)
            /\ queue' = SortedTasks({TaskOf(s) : s \in Dispatched})
            /\ pc' = [w \in AllWorkers |->
                        IF w \in {TaskOf(s) : s \in Dispatched}
                        THEN "queued" ELSE pc[w]]
    /\ UNCHANGED <<archives, results, activeSet, retTodo, removedCount>>
    /\ MgrFrame

\* the tasks run_backups submitted
Submitted == {t \in WaveTasks : pc[t] # "idle"}

\* run_backups: as_completed hands over a finished task
CollectResult(t) ==
    /\ mpc = "wave"
    /\ t \in Submitted
    /\ pc[t] = "done"
    /\ results[Svc(t)] = "none"
    /\ results' = [results EXCEPT ![Svc(t)] =
                     IF result[t] = "true" THEN "true" ELSE "false"]
    /\ UNCHANGED <<mpc, pc, queue, policy, archives, activeSet, retTodo,
                   removedCount>>
    /\ MgrFrame

\* the executor has shut down: every submitted task has finished and its
\* result has been taken
WaveJoined ==
    \A t \in Submitted : pc[t] = "done" /\ results[Svc(t)] # "none"

\* as RetentionBegin, but the executor is not joined: retention starts as
\* soon as every task has been handed to a pool thread
RetentionBegin_NoJoin ==
    /\ mpc = "wave"
    /\ queue = <<>>
    /\ mpc' = "retention"
    /\ activeSet' = GetActiveBackups
    /\ retTodo' = GroupKeys
    /\ removedCount' = 0
    /\ UNCHANGED <<pc, queue, results, policy, archives>>
    /\ MgrFrame

\* apply_retention_policy / apply_policy up to the loop over the services
RetentionBegin ==
    /\ mpc = "wave"
    /\ WaveJoined
    /\ mpc' = "retention"
    /\ activeSet' = GetActiveBackups
    /\ retTodo' = GroupKeys
    /\ removedCount' = 0
    /\ UNCHANGED <<pc, queue, results, policy, archives>>
    /\ MgrFrame

\* apply_policy: one iteration of the loop over the services
RetentionService(s) ==
    /\ mpc = "retention"
    /\ s \in retTodo
    /\ \E rem \in PolicyRemovals(s, policy[s], activeSet) :
          /\ archives' = archives \ rem
          /\ removedCount' = removedCount + Cardinality(rem)
    /\ retTodo' = retTodo \ {s}
    /\ UNCHANGED <<mpc, pc, queue, results, policy, activeSet>>
    /\ MgrFrame

\* apply_policy returns and run_backups returns the results
RunBackupsReturn ==
    /\ mpc = "retention"
    /\ retTodo = {}
    /\ mpc' = "done"
    /\ UNCHANGED <<pc, queue, results, policy, archives, activeSet, retTodo,
                   removedCount>>
    /\ MgrFrame

\* main, command 'backup': the exit status once run_backups has returned
\* its results (the services with a result are the keys of the dict)
ExitStatus ==
    LET keys == {s \in Services : results[s] # "none"}
        successes == Cardinality({s \in keys : results[s] = "true"})
    IN IF successes < Cardinality(keys) THEN 1 ELSE 0

\* ---------------------------------------------------------------- SpecWave
\* One run_backups wave of process MgrPid over the discovered services,
\* followed by its retention pass.
OldDay == StartTime - (DefaultRetentionDays + 1) * HoursPerDay
Yesterday == StartTime - HoursPerDay
LastHour == StartTime - 1

SeedArchives ==
    {[dir |-> "/backups", service |-> "app", ts |-> OldDay],
     [dir |-> "/backups", service |-> "app_db", ts |-> OldDay],
     [dir |-> "/backups", service |-> "app", ts |-> Yesterday]}

\* what the wave finds on disk: nothing; archives and the lock of a run
\* that died; archives and a lock file of the old plain format; the lock
\* of a backup that another live process is running
DiskStates ==
    {[lock |-> NoFile, files |-> {}, root |-> {}],
     [lock |-> LockRecord(ExtPid, LastHour, "ext"), files |-> {}, root |-> {}],
     [lock |-> LockRecord(DeadPid, OldDay, "ext"), files |-> SeedArchives,
      root |-> {}],
     [lock |-> NoFile, files |-> SeedArchives,
      root |-> {[service |-> "app", ts |-> OldDay]}]}

\* BACKUP_SERVICE_NAMES and the service_names argument
EnvStates ==
    {[self |-> {}, arg |-> {}],
     [self |-> {"app_db"}, arg |-> {}],
     [self |-> {"App"}, arg |-> {}],
     [self |-> {}, arg |-> {"app"}],
     [self |-> {}, arg |-> {"App"}]}

RetentionConfigs ==
    {NoPolicy,
     [kind |-> "days", n |-> 1, daily |-> 0, weekly |-> 0, monthly |-> 0],
     [kind |-> "mixed", n |-> 0, daily |-> 1, weekly |-> 0, monthly |-> 1]}

MaxPool == 2

InitWave ==
    /\ now = StartTime
    /\ \E d \in DiskStates :
          /\ lockFile = [s \in Services |-> IF s = "app_db" THEN d.lock ELSE NoFile]
          /\ archives = d.files
          /\ rootLocks = d.root
    /\ backup_dir = "/backups"
    /\ \E e \in EnvStates :
          /\ selfNames = e.self
          /\ serviceArg = e.arg
    /\ excludeNames = {}
    /\ hostname = "bkhost"
    /\ pc = [w \in AllWorkers |-> "idle"]
    /\ wService = [w \in AllWorkers |->
                     IF w \in Contenders THEN "app" ELSE TaskService[w]]
    /\ wPid = [w \in AllWorkers |-> MgrPid]
    /\ wEntry = [w \in AllWorkers |-> "with_lock"]
    /\ WorkerFieldsInit
    /\ mpc = "idle"
    /\ queue = <<>>
    /\ results = [s \in Services |-> "none"]
    /\ max_workers \in 1..MaxPool
    /\ \E pdb \in {10, 50} : priority = [s \in Services |->
                                          IF s = "app_db" THEN pdb ELSE 50]
    /\ \E r \in RetentionConfigs : cfgRetention = [s \in Services |-> r]
    /\ policy = [s \in Services |-> NoPolicy]
    /\ activeSet = {}
    /\ retTodo = {}
    /\ removedCount = 0
    /\ PipeOff
    /\ AuxOff

\* a task of the wave; no other process touches the lock directory, so
\* the lock file of a task's service never vanishes under it
WaveTaskStep(t) ==
    \/ RunBackupWithLockStart(t)
    \/ CreateLockExists(t)
    \/ CreateLockRead(t)
    \/ CreateLockRemove(t)
    \/ CreateNewLockOpen(t)
    \/ CreateNewLockWrite(t)
    \/ ServiceBackupEnter(t)
    \/ ServiceBackupReturn(t)
    \/ RemoveLockExists(t)
    \/ RemoveLockRemove(t)

NextWave ==
    \/ RunBackupsStart
    \/ \E t \in WaveTasks : WaveTaskStep(t)
    \/ \E t \in WaveTasks : CollectResult(t)
    \/ RetentionBegin
    \/ \E s \in Services : RetentionService(s)
    \/ RunBackupsReturn
    \/ Tick

SpecWave == InitWave /\ [][NextWave]_vars

\* ----------------------------------------------------------------- SpecRet
\* The three retention operations called on a backup directory, one call
\* after the other, at a fixed time.
MaxKeep == 1

\* Monday 2025-01-06 00:00
RetNow == 21 * HoursPerDay
RetFile(s, t) == [dir |-> "/backups", service |-> s, ts |-> t]
\* app: Dec 23, Dec 30 00:00 and 22:00, Jan 5; app_db: Dec 30, Jan 5 12:00;
\* and app_notes.tar.gz, a name the pattern does not match
RetFiles ==
    {RetFile("app", 7 * HoursPerDay), RetFile("app", 14 * HoursPerDay),
     RetFile("app", 14 * HoursPerDay + 22), RetFile("app", 20 * HoursPerDay),
     RetFile("app_db", 14 * HoursPerDay), RetFile("app_db", 20 * HoursPerDay + 12),
     RetFile("app", NoTs)}
RetDays == {0, 1, 7, 14}

\* the call just made: its arguments, the files it found, whether it raised,
\* and, for a time-based call that follows a time-based call for the same
\* service, the days and the return value of that earlier call
Op(k, s, n, d, w, m, raised) ==
    LET follows == k = "time" /\ lastOp.kind = "time" /\ lastOp.s = s
    IN [kind |-> k, s |-> s, n |-> n, daily |-> d, weekly |-> w, monthly |-> m,
        before |-> archives, raised |-> raised,
        prevDays |-> IF follows THEN lastOp.n ELSE -1,
        prevRemoved |-> IF follows THEN removedCount ELSE 0]

RetFrame ==
    /\ UNCHANGED <<now, lockFile, backup_dir, selfNames, excludeNames,
                   hostname, pc, wService, wPid, wEntry, result, lkTime,
                   bkTime, bkOutcome, acquired, seen>>
    /\ UNCHANGED <<mpc, queue, results, max_workers, priority, serviceArg,
                   cfgRetention, policy, rootLocks, activeSet, retTodo>>
    /\ UNCHANGED pipeVars
    /\ UNCHANGED discVars
    /\ UNCHANGED extVars

\* as ApplyTimeBased, with the cutoff counted from the newest archive found
\* instead of from the current time
ApplyTimeBased_FromNewest(s, days) ==
    LET found == {a \in GetServiceBackupsIn(archives, s) : ValidName(a)}
        rem == {a \in found \ activeSet :
                  \E b \in found : a.ts < b.ts - days * HoursPerDay}
    IN /\ mpc = "direct"
       /\ archives' = archives \ (IF days <= 0 THEN {} ELSE rem)
       /\ removedCount' = Cardinality(IF days <= 0 THEN {} ELSE rem)
       /\ lastOp' = Op("time", s, days, 0, 0, 0, FALSE)
       /\ RetFrame

\* apply_time_based_retention(service_name, days, active_backups)
ApplyTimeBased(s, days) ==
    /\ mpc = "direct"
    /\ archives' = archives \ TimeBasedRemovedIn(archives, s, days, activeSet)
    /\ removedCount' = Cardinality(TimeBasedRemovedIn(archives, s, days, activeSet))
    /\ lastOp' = Op("time", s, days, 0, 0, 0, FALSE)
    /\ RetFrame

\* apply_count_based_retention(service_name, count, active_backups)
ApplyCountBased(s, count) ==
    /\ mpc = "direct"
    /\ \E rem \in CountBasedRemovalsIn(archives, s, count, activeSet) :
          /\ archives' = archives \ rem
          /\ removedCount' = Cardinality(rem)
    /\ lastOp' = Op("count", s, count, 0, 0, 0, CountBasedRaises(archives, s, count))
    /\ RetFrame

\* apply_mixed_retention(service_name, daily, weekly, monthly, active_backups)
ApplyMixed(s, daily, weekly, monthly) ==
    /\ mpc = "direct"
    /\ \E rem \in MixedRemovalsIn(archives, s, daily, weekly, monthly, activeSet) :
          /\ archives' = archives \ rem
          /\ removedCount' = Cardinality(rem)
    /\ lastOp' = Op("mixed", s, 0, daily, weekly, monthly, FALSE)
    /\ RetFrame

\* a backup directory, and no active backup or one of its files active
InitRet ==
    /\ now = RetNow
    /\ lockFile = [s \in Services |-> NoFile]
    /\ archives \in SUBSET RetFiles
    /\ backup_dir = "/backups"
    /\ selfNames = {}
    /\ excludeNames = {}
    /\ hostname = "bkhost"
    /\ pc = [w \in AllWorkers |-> "idle"]
    /\ wService = [w \in AllWorkers |->
                     IF w \in Contenders THEN "app" ELSE TaskService[w]]
    /\ wPid = [w \in AllWorkers |-> MgrPid]
    /\ wEntry = [w \in AllWorkers |-> "with_lock"]
    /\ WorkerFieldsInit
    /\ mpc = "direct"
    /\ queue = <<>>
    /\ results = [s \in Services |-> "none"]
    /\ max_workers = 1
    /\ priority = [s \in Services |-> 50]
    /\ serviceArg = {}
    /\ cfgRetention = [s \in Services |-> NoPolicy]
    /\ policy = [s \in Services |-> NoPolicy]
    /\ rootLocks = {}
    /\ activeSet \in {{}} \cup {{a} : a \in archives}
    /\ retTodo = {}
    /\ removedCount = 0
    /\ PipeOff
    /\ AuxOff

NextRet ==
    \/ \E s \in Services, days \in RetDays : ApplyTimeBased(s, days)
    \/ \E s \in Services, count \in 0..(MaxKeep + 1) : ApplyCountBased(s, count)
    \/ \E s \in Services, d \in 0..MaxKeep, w \in 0..MaxKeep, m \in 0..MaxKeep :
          ApplyMixed(s, d, w, m)

SpecRet == InitRet /\ [][NextRet]_vars

\* ---------------------------------------------------------------- SpecDisc
\* ServiceDiscovery._get_service_name for one container and one dict of
\* stacks. A name is the sequence of its parts between "_".
StackNames == {<<"app">>, <<"app", "db">>, <<"web">>}
ContainerNames == {<<"app", "db", "1">>, <<"app", "web", "1">>, <<"web", "1">>, <<"db">>}
LabelValues == {<<"shop">>, <<"blog">>}
NoLabel == <<>>
\* the labels in the order the code looks them up
LabelKeys == <<"com.docker.compose.project", "io.docker.compose.project",
               "io.portainer.stackname">>

\* the dicts of stacks: every order of every set of stack names
StackDicts ==
    {q \in UNION {[1..n -> StackNames] : n \in 0..Cardinality(StackNames)} :
        \A i, j \in DOMAIN q : i # j => q[i] # q[j]}

\* container_name.startswith(f"{stack_name}_")
StartsWithStack(name, stack) ==
    /\ Len(stack) < Len(name)
    /\ SubSeq(name, 1, Len(stack)) = stack

\* the first index of q that satisfies the test, 0 if none
FirstLabel(c) ==
    LET has == {i \in DOMAIN LabelKeys : c.labels[i] # NoLabel}
    IN IF has = {} THEN 0 ELSE CHOOSE i \in has : \A j \in has : i <= j
FirstStack(name, q) ==
    LET has == {i \in DOMAIN q : StartsWithStack(name, q[i])}
    IN IF has = {} THEN 0 ELSE CHOOSE i \in has : \A j \in has : i <= j

\* ServiceDiscovery._get_service_name
GetServiceNameOf(c, q) ==
    IF FirstLabel(c) # 0 THEN c.labels[FirstLabel(c)]
    ELSE IF FirstStack(c.name, q) # 0 THEN q[FirstStack(c.name, q)]
    ELSE c.name

DiscFrame ==
    /\ UNCHANGED lockVars
    /\ UNCHANGED mgrVars
    /\ UNCHANGED pipeVars
    /\ UNCHANGED lastOp
    /\ UNCHANGED extVars

GetServiceName ==
    /\ dpc = "call"
    /\ service_name' = GetServiceNameOf(container, stacks)
    /\ dpc' = "done"
    /\ UNCHANGED <<stacks, container>>
    /\ DiscFrame

InitDisc ==
    /\ now = StartTime
    /\ lockFile = [s \in Services |-> NoFile]
    /\ archives = {}
    /\ backup_dir = "/backups"
    /\ selfNames = {}
    /\ excludeNames = {}
    /\ hostname = "bkhost"
    /\ pc = [w \in AllWorkers |-> "idle"]
    /\ wService = [w \in AllWorkers |->
                     IF w \in Contenders THEN "app" ELSE TaskService[w]]
    /\ wPid = [w \in AllWorkers |-> MgrPid]
    /\ wEntry = [w \in AllWorkers |-> "with_lock"]
    /\ WorkerFieldsInit
    /\ MgrOff
    /\ PipeOff
    /\ lastOp = NoOp
    /\ ExtOff
    /\ stacks \in StackDicts
    /\ container \in [name : ContainerNames, labels : [DOMAIN LabelKeys -> LabelValues \cup {NoLabel}]]
    /\ service_name = <<>>
    /\ dpc = "call"

NextDisc == GetServiceName

SpecDisc == InitDisc /\ [][NextDisc]_vars

\* ----------------------------------------------------------------- SpecCfg
\* ConfigurationManager.get_service_config over the sources as loaded.
\* A config is followed on database.type and database.credentials, the
\* latter None or a map over user and password; every source writes its own
\* name as the value, so a value tells where it comes from.

\* the lock and the archive state of a process that runs no backup
LockOff ==
    /\ now = StartTime
    /\ lockFile = [s \in Services |-> NoFile]
    /\ archives = {}
    /\ backup_dir = "/backups"
    /\ selfNames = {}
    /\ excludeNames = {}
    /\ hostname = "bkhost"
    /\ pc = [w \in AllWorkers |-> "idle"]
    /\ wService = [w \in AllWorkers |->
                     IF w \in Contenders THEN "app" ELSE TaskService[w]]
    /\ wPid = [w \in AllWorkers |-> MgrPid]
    /\ wEntry = [w \in AllWorkers |-> "with_lock"]
    /\ WorkerFieldsInit

CfgNames == {"wordpress", "WordPress"}
CredKeys == {"user", "password"}
Absent == "absent"
NoCreds == [k \in CredKeys |-> Absent]

\* what a source holds for one name: nothing, or a config that may set
\* database.type and may set database.credentials to a map
NoEntry == [present |-> FALSE, type |-> Absent, dict |-> FALSE, m |-> NoCreds]
Entries(src) ==
    {[present |-> TRUE, type |-> t, dict |-> FALSE, m |-> NoCreds] :
        t \in {Absent, src}}
    \cup {[present |-> TRUE, type |-> t, dict |-> TRUE,
           m |-> [k \in CredKeys |-> IF k = c THEN src ELSE Absent]] :
             t \in {Absent, src}, c \in CredKeys}

\* _load_builtin_configs: the wordpress template sets database.type and no
\* credentials
BuiltinConfigs ==
    [n \in CfgNames |->
        IF n = "wordpress"
        THEN [present |-> TRUE, type |-> "builtin", dict |-> FALSE, m |-> NoCreds]
        ELSE NoEntry]

\* _get_default_config: type None, credentials None; owner is the source
\* whose map object database.credentials refers to
DefaultConfig == [type |-> "default", dict |-> FALSE, m |-> NoCreds, owner |-> "none"]

\* _deep_update(config, entry) for the entry of source src
DeepUpdate(t, e, src) ==
    IF ~e.present THEN t
    ELSE [type |-> IF e.type # Absent THEN e.type ELSE t.type,
          dict |-> t.dict \/ e.dict,
          m |-> IF ~e.dict THEN t.m
                ELSE IF ~t.dict THEN e.m
                ELSE [k \in CredKeys |-> IF e.m[k] # Absent THEN e.m[k] ELSE t.m[k]],
          owner |-> IF e.dict /\ ~t.dict THEN src ELSE t.owner]

\* the keys the code looks a service up with
Found(src, n) == src[n].present
\* no source has the lowercased name as a key
NoneFound(n) ==
    /\ ~Found(BuiltinConfigs, Lower(n))
    /\ ~Found(file_configs, Lower(n))
    /\ ~Found(env_configs, Lower(n))
    /\ ~Found(custom_configs, Lower(n))

\* the config after the four sources
Merged(n) ==
    LET c1 == DeepUpdate(DefaultConfig, BuiltinConfigs[Lower(n)], "builtin")
        c2 == DeepUpdate(c1, file_configs[Lower(n)], "file")
        c3 == DeepUpdate(c2, env_configs[Lower(n)], "env")
    IN DeepUpdate(c3, custom_configs[n], "custom")

\* the entry of a source after the call: the map that database.credentials
\* of the config refers to is the map of the first source that had one, and
\* the later sources were merged into that very object
Aliased(src, name, key, n, c) ==
    IF c.owner = name /\ key = (IF name = "custom" THEN n ELSE Lower(n))
    THEN [src[key] EXCEPT !.m = c.m]
    ELSE src[key]

\* get_service_config(service_name, containers)
GetServiceConfig(n, withContainers) ==
    /\ cpc \in {"ready", "done"}
    /\ LET c == Merged(n)
       IN /\ file_configs' = [k \in CfgNames |-> Aliased(file_configs, "file", k, n, c)]
          /\ env_configs' = [k \in CfgNames |-> Aliased(env_configs, "env", k, n, c)]
          /\ custom_configs' = [k \in CfgNames |-> Aliased(custom_configs, "custom", k, n, c)]
          \* the discovered config is the default config, merged last
          /\ config' = IF withContainers /\ NoneFound(n)
                       THEN DefaultConfig ELSE c
    /\ cfgService' = n
    /\ cfgContainers' = withContainers
    /\ cpc' = "done"
    /\ UNCHANGED cfgLoaded
    /\ UNCHANGED <<lockVars, mgrVars, pipeVars, lastOp, discVars, reqVars, envVars, dumpVars, schedVars, tarVars, dockVars>>

\* the sources as loaded: the keys of the file and of the custom configs are
\* as written, the keys of the environment are lowercased by the loader
InitCfg ==
    /\ LockOff
    /\ MgrOff
    /\ PipeOff
    /\ lastOp = NoOp
    /\ DiscOff
    /\ ReqOff
    /\ EnvOff
    /\ DumpOff
    /\ SchedOff
    /\ TarOff
    /\ DockOff
    /\ file_configs \in [CfgNames -> Entries("file") \cup {NoEntry}]
    /\ env_configs \in {e \in [CfgNames -> Entries("env") \cup {NoEntry}] :
                          \A k \in CfgNames : k # Lower(k) => e[k] = NoEntry}
    /\ custom_configs \in [CfgNames -> Entries("custom") \cup {NoEntry}]
    /\ cfgService = ""
    /\ cfgContainers = FALSE
    /\ config = DefaultConfig
    /\ cfgLoaded = [file |-> file_configs, env |-> env_configs, custom |-> custom_configs]
    /\ cpc = "ready"

NextCfg == \E n \in CfgNames, withContainers \in BOOLEAN : GetServiceConfig(n, withContainers)

SpecCfg == InitCfg /\ [][NextCfg]_vars

\* ----------------------------------------------------------------- SpecReq
\* PortainerClient._make_request: the loop around session.request.
ManualRetries == 2
RetryTotal == 3
\* retry_delay * (2 ** manual_attempt), in units of retry_backoff
Pow2(k) == IF k = 0 THEN 1 ELSE IF k = 1 THEN 2 ELSE 4
Delay(k) == Pow2(k)

\* what one session.request call ends with: a response that parses, or the
\* exception class the handlers see. The adapter of _create_session repeats
\* the HTTP request up to retry_total times on connect errors, read errors
\* and the statuses 429, 500, 502, 503, 504 before it gives up.
Failures == {"ConnectTimeout", "ReadTimeout", "RequestException"}
Outcomes == Failures \cup {"ok", "ValueError"}
HttpRequests(o) ==
    IF o \in {"ConnectTimeout"} THEN {1 + RetryTotal} ELSE 1..(1 + RetryTotal)

ReqFrame ==
    UNCHANGED <<lockVars, mgrVars, pipeVars, lastOp, discVars, cfgVars, envVars, dumpVars, schedVars, tarVars, dockVars>>

\* a GET with cache=True and a fresh entry returns the cached data
CacheHit ==
    /\ rpc = "entry"
    /\ cached
    /\ response' = "cached"
    /\ rpc' = "done"
    /\ UNCHANGED <<manual_attempt, attempts, slept, cached>>
    /\ ReqFrame

\* the loop is entered
CacheMiss ==
    /\ rpc = "entry"
    /\ ~cached
    /\ rpc' = "request"
    /\ UNCHANGED <<manual_attempt, attempts, slept, cached, response>>
    /\ ReqFrame

\* as SessionRequest, with the last failure retried as well
SessionRequest_NoLimit(o, h) ==
    /\ rpc = "request"
    /\ attempts' = Append(attempts, [outcome |-> o, http |-> h])
    /\ CASE o = "ok" -> /\ response' = "parsed"
                        /\ rpc' = "done"
         [] o = "ValueError" -> /\ response' = "None"
                                /\ rpc' = "done"
         [] OTHER -> /\ rpc' = IF manual_attempt < ManualRetries + 1 THEN "sleep" ELSE "done"
                     /\ response' = IF manual_attempt < ManualRetries + 1 THEN response ELSE "None"
    /\ UNCHANGED <<manual_attempt, slept, cached>>
    /\ ReqFrame

\* one iteration of the loop up to the return or the sleep
SessionRequest(o, h) ==
    /\ rpc = "request"
    /\ attempts' = Append(attempts, [outcome |-> o, http |-> h])
    /\ CASE o = "ok" -> /\ response' = "parsed"
                        /\ rpc' = "done"
         [] o = "ValueError" -> /\ response' = "None"
                                /\ rpc' = "done"
         [] OTHER -> /\ rpc' = IF manual_attempt < ManualRetries THEN "sleep" ELSE "done"
                     /\ response' = IF manual_attempt < ManualRetries THEN response ELSE "None"
    /\ UNCHANGED <<manual_attempt, slept, cached>>
    /\ ReqFrame

\* time.sleep(delay), then the next iteration
Sleep ==
    /\ rpc = "sleep"
    /\ slept' = Append(slept, Delay(manual_attempt))
    /\ manual_attempt' = manual_attempt + 1
    /\ rpc' = "request"
    /\ UNCHANGED <<attempts, cached, response>>
    /\ ReqFrame

InitReq ==
    /\ LockOff
    /\ MgrOff
    /\ PipeOff
    /\ lastOp = NoOp
    /\ DiscOff
    /\ CfgOff
    /\ EnvOff
    /\ DumpOff
    /\ SchedOff
    /\ TarOff
    /\ DockOff
    /\ rpc = "entry"
    /\ manual_attempt = 0
    /\ attempts = <<>>
    /\ slept = <<>>
    /\ cached \in BOOLEAN
    /\ response = "unset"

NextReq ==
    \/ CacheHit
    \/ CacheMiss
    \/ \E o \in Outcomes : \E h \in HttpRequests(o) : SessionRequest(o, h)
    \/ Sleep

\* every step of the call is taken in the end: session.request and
\* time.sleep return
SpecReq == InitReq /\ [][NextReq]_vars /\ WF_vars(NextReq)

\* ----------------------------------------------------------------- SpecEnv
\* The two resolvers of env references: the loop of get_stack_env and
\* resolve_env_var_references. An env map is the sequence of its values in
\* dict order, the key of a value being its position; a value is a literal
\* or a reference, ${K} or $K, to the key K, key 0 being a key not in the map.
MaxVars == 3
MaxChain == 9
PassLimit == 3

Literal == [kind |-> "lit", to |-> 0]
Values(n) == {Literal} \cup [kind : {"brace", "dollar"}, to : 0..n]
\* every map of up to MaxVars variables, and the chains K1=$K2, K2=$K3, ...
\* that end in a literal
ChainEnv(n) == [i \in 1..n |-> IF i < n THEN [kind |-> "dollar", to |-> i + 1] ELSE Literal]
EnvMaps ==
    UNION {[1..n -> Values(n)] : n \in 0..MaxVars}
    \cup {ChainEnv(n) : n \in (MaxVars + 1)..MaxChain}

\* resolve_env_var(value, env_vars), and the two branches of get_stack_env:
\* the value of the referenced key if the map has it, else the value itself
ResolveEnvVar(v, e) ==
    IF v.kind # "lit" /\ v.to \in DOMAIN e THEN e[v.to] ELSE v

\* get_stack_env: one pass, every reference looked up in the map as parsed
ResolveStackEnv(e) == [i \in DOMAIN e |-> ResolveEnvVar(e[i], e)]

\* one pass of resolve_env_var_references from key i on: each value is
\* replaced in place, the later keys see the replaced values
RECURSIVE PassFrom(_, _)
PassFrom(e, i) ==
    IF i > Len(e) THEN e
    ELSE PassFrom([e EXCEPT ![i] = ResolveEnvVar(e[i], e)], i + 1)
\* resolve_env_var_references: up to PassLimit passes, stopping after a pass
\* that changed nothing
RECURSIVE Passes(_, _)
Passes(e, n) ==
    IF n = 0 \/ PassFrom(e, 1) = e THEN e
    ELSE Passes(PassFrom(e, 1), n - 1)
ResolveEnvVarReferences(e) == Passes(e, PassLimit)

EnvFrame ==
    UNCHANGED <<lockVars, mgrVars, pipeVars, lastOp, discVars, cfgVars, reqVars, dumpVars, schedVars, tarVars, dockVars>>

\* get_stack_env on the stack's env, then on its own result
GetStackEnv ==
    /\ epc = "call"
    /\ resolver' = "get_stack_env"
    /\ resolved_vars' = ResolveStackEnv(env_vars)
    /\ resolvedAgain' = ResolveStackEnv(ResolveStackEnv(env_vars))
    /\ epc' = "done"
    /\ UNCHANGED env_vars
    /\ EnvFrame

\* resolve_env_var_references on the env, then on its own result
ResolveReferences ==
    /\ epc = "call"
    /\ resolver' = "resolve_env_var_references"
    /\ resolved_vars' = ResolveEnvVarReferences(env_vars)
    /\ resolvedAgain' = ResolveEnvVarReferences(ResolveEnvVarReferences(env_vars))
    /\ epc' = "done"
    /\ UNCHANGED env_vars
    /\ EnvFrame

InitEnv ==
    /\ LockOff
    /\ MgrOff
    /\ PipeOff
    /\ lastOp = NoOp
    /\ DiscOff
    /\ CfgOff
    /\ ReqOff
    /\ DumpOff
    /\ SchedOff
    /\ TarOff
    /\ DockOff
    /\ env_vars \in EnvMaps
    /\ resolver = "none"
    /\ resolved_vars = <<>>
    /\ resolvedAgain = <<>>
    /\ epc = "call"

NextEnv == GetStackEnv \/ ResolveReferences

SpecEnv == InitEnv /\ [][NextEnv]_vars

\* ---------------------------------------------------------------- SpecDump
\* DatabaseBackup._backup_postgres, _backup_mysql, _backup_mongodb and
\* _backup_redis up to the dump command and the value returned.
MinPort == 1
MaxPort == 65535

\* the character sequences the checks look for; <backquote> is the backquote
InlineChars == {";", "&&", "||", "<backquote>", "$", "|", ">", "<"}
ValidateChars == {";", "&&", "||", "<backquote>", "|", ">", "<"}
\* credential values: missing, a plain name, a name with one sequence in it
PlainValues == {"", "svc"}
TaintedValues == {"a;b", "a&&b", "a||b", "a<backquote>b", "a$b", "a|b", "a>b", "a<b"}
\* c in value
CharsIn(v) ==
    CASE v = "a;b" -> {";"}
      [] v = "a&&b" -> {"&&"}
      [] v = "a||b" -> {"||", "|"}
      [] v = "a<backquote>b" -> {"<backquote>"}
      [] v = "a$b" -> {"$"}
      [] v = "a|b" -> {"|"}
      [] v = "a>b" -> {">"}
      [] v = "a<b" -> {"<"}
      [] OTHER -> {}

\* a port as the credentials hold it: missing, an int or a string
NoPort == [kind |-> "none", n |-> 0]
Ports ==
    {NoPort, [kind |-> "int", n |-> 0], [kind |-> "str", n |-> 0],
     [kind |-> "int", n |-> 5432], [kind |-> "str", n |-> MaxPort],
     [kind |-> "str", n |-> MaxPort + 1], [kind |-> "int", n |-> 70000],
     [kind |-> "nondigit", n |-> 0]}
\* bool(port)
PortTruthy(pt) == pt.kind \in {"str", "nondigit"} \/ (pt.kind = "int" /\ pt.n # 0)
\* str(port).isdigit()
PortIsDigit(pt) == pt.kind \in {"int", "str"}
\* _validate_credential('port', value)
ValidatePort(pt) == PortIsDigit(pt) /\ MinPort <= pt.n /\ pt.n <= MaxPort
\* _validate_credential(key, value) for a string credential
ValidateCredential(v) == CharsIn(v) \cap ValidateChars = {}
\* the check written out in _backup_postgres and _backup_mysql
InlineCheck(v) == CharsIn(v) \cap InlineChars = {}

StringKeys == {"user", "database", "host", "authSource"}
\* the credentials: at most one value is tainted
CredentialSets ==
    {c \in [user : PlainValues \cup TaintedValues,
            database : PlainValues \cup TaintedValues,
            host : PlainValues \cup TaintedValues \cup {"localhost"},
            authSource : PlainValues \cup TaintedValues,
            password : {"", "pw"},
            port : Ports] :
        Cardinality({k \in StringKeys : c[k] \in TaintedValues}) <= 1}

\* the credential keys the flavor puts on its dump command line
HostPlaced(c) == c.host # "" /\ c.host # "localhost"
PostgresKeys(c) ==
    {"user", "database"} \cup (IF HostPlaced(c) THEN {"host"} ELSE {})
        \cup (IF PortTruthy(c.port) THEN {"port"} ELSE {})
MysqlKeys(c) ==
    {"user"} \cup (IF HostPlaced(c) THEN {"host"} ELSE {})
        \cup (IF PortTruthy(c.port) THEN {"port"} ELSE {})
        \cup (IF c.database # "" THEN {"database"} ELSE {})
MongodbKeys(c) ==
    (IF c.user # "" /\ c.password # "" THEN {"user"} ELSE {})
        \cup (IF c.authSource # "" THEN {"authSource"} ELSE {})
        \cup (IF HostPlaced(c) THEN {"host"} ELSE {})
        \cup (IF PortTruthy(c.port) THEN {"port"} ELSE {})
        \cup (IF c.database # "" THEN {"database"} ELSE {})
RedisKeys(c) ==
    (IF HostPlaced(c) THEN {"host"} ELSE {})
        \cup (IF PortTruthy(c.port) THEN {"port"} ELSE {})

DumpFrame ==
    /\ UNCHANGED <<lockVars, mgrVars, pipeVars, lastOp, discVars, cfgVars,
                   reqVars, envVars, schedVars, tarVars, dockVars>>
    /\ UNCHANGED <<db_type, credentials, rdbFile>>

\* the call returns False before the dump command
Rejected ==
    /\ cmdKeys' = {}
    /\ executed' = FALSE
    /\ dumpRet' = "False"
\* the dump command is executed with the keys on its command line; the
\* call returns True if it exits with 0 and the output is saved
Dumped(keys, ok) ==
    /\ cmdKeys' = keys
    /\ executed' = TRUE
    /\ dumpRet' = IF ok THEN "True" ELSE "False"

BackupPostgres(ok) ==
    /\ qpc = "call" /\ db_type = "postgres"
    /\ LET c == credentials
       IN IF \/ c.user = "" \/ c.database = ""
             \/ \E k \in {"user", "database", "host"} : ~InlineCheck(c[k])
             \/ (PortTruthy(c.port) /\ ~PortIsDigit(c.port))
          THEN Rejected
          ELSE Dumped(PostgresKeys(c), ok)
    /\ qpc' = "done"
    /\ DumpFrame

BackupMysql(ok) ==
    /\ qpc = "call" /\ db_type = "mysql"
    /\ LET c == credentials
       IN IF \/ c.user = ""
             \/ \E k \in {"user", "database", "host"} : ~InlineCheck(c[k])
             \/ (PortTruthy(c.port) /\ ~PortIsDigit(c.port))
          THEN Rejected
          ELSE Dumped(MysqlKeys(c), ok)
    /\ qpc' = "done"
    /\ DumpFrame

\* mkdir in the container comes first; then every credential that is set
\* goes through _validate_credential
BackupMongodb(mkdirOk, ok) ==
    /\ qpc = "call" /\ db_type = "mongodb"
    /\ LET c == credentials
       IN IF \/ ~mkdirOk
             \/ \E k \in StringKeys \cup {"password"} : ~ValidateCredential(c[k])
             \/ (PortTruthy(c.port) /\ ~ValidatePort(c.port))
          THEN Rejected
          ELSE Dumped(MongodbKeys(c), ok)
    /\ qpc' = "done"
    /\ DumpFrame

\* password, host and port are validated; the dump is the archive of
\* /data/dump.rdb if that works, else redis-cli --rdb
BackupRedis(ok) ==
    /\ qpc = "call" /\ db_type = "redis"
    /\ LET c == credentials
       IN IF \/ \E k \in {"password", "host"} : ~ValidateCredential(c[k])
             \/ (PortTruthy(c.port) /\ ~ValidatePort(c.port))
          THEN Rejected
          ELSE Dumped(IF rdbFile THEN {} ELSE RedisKeys(c), ok)
    /\ qpc' = "done"
    /\ DumpFrame

InitDump ==
    /\ LockOff
    /\ MgrOff
    /\ PipeOff
    /\ lastOp = NoOp
    /\ DiscOff
    /\ CfgOff
    /\ ReqOff
    /\ EnvOff
    /\ SchedOff
    /\ TarOff
    /\ DockOff
    /\ db_type \in {"postgres", "mysql", "mongodb", "redis"}
    /\ credentials \in CredentialSets
    /\ rdbFile \in BOOLEAN
    /\ (rdbFile => db_type = "redis")
    /\ cmdKeys = {}
    /\ executed = FALSE
    /\ dumpRet = "unset"
    /\ qpc = "call"

NextDump ==
    \/ \E ok \in BOOLEAN : BackupPostgres(ok)
    \/ \E ok \in BOOLEAN : BackupMysql(ok)
    \/ \E mkdirOk \in BOOLEAN, ok \in BOOLEAN : BackupMongodb(mkdirOk, ok)
    \/ \E ok \in BOOLEAN : BackupRedis(ok)

SpecDump == InitDump /\ [][NextDump]_vars

\* --------------------------------------------------------------- SpecSched
\* main() in schedule mode: the wave at startup, the scheduler thread, the
\* signal handler and the end of the process. A wave is one service, whose
\* pipeline runs in a worker thread of the executor.
MaxIntervals == 2

SchedFrame ==
    UNCHANGED <<lockVars, mgrVars, pipeVars, lastOp, discVars, cfgVars,
                reqVars, envVars, dumpVars, tarVars, dockVars>>

JobInFlight == jobPc \in {"queued", "locked", "backed_up", "restarted"}

\* run_backups submits the pipeline
StartWave(by) ==
    /\ jobPc' = "queued"
    /\ jobRet' = "unset"
    /\ waveBy' = by
    /\ sigInFlight' = FALSE
    /\ firstWaveAt' = IF firstWaveAt = -1 THEN elapsed ELSE firstWaveAt

\* "Run backup immediately on startup": args.no_initial_backup is not read
MainInitialBackup ==
    /\ mainPc = "start"
    /\ StartWave("main")
    /\ mainPc' = "initial_wave"
    /\ UNCHANGED <<no_initial_backup, thrPc, shutdown_event, elapsed, dueAt,
                   jobLock, jobStopped>>
    /\ SchedFrame

\* _run_backup_with_lock: the lock is created
JobLock ==
    /\ jobPc = "queued"
    /\ jobLock' = TRUE
    /\ jobPc' = "locked"
    /\ UNCHANGED <<no_initial_backup, mainPc, thrPc, shutdown_event, elapsed,
                   dueAt, jobStopped, jobRet, waveBy, firstWaveAt, sigInFlight>>
    /\ SchedFrame

\* service.backup() up to its finally block; it stops no container
\* (_stop_containers returns [] on every path) and does not look at the event
JobBackup(ok) ==
    /\ jobPc = "locked"
    /\ jobStopped' = {}
    /\ jobRet' = IF ok THEN "True" ELSE "False"
    /\ jobPc' = "backed_up"
    /\ UNCHANGED <<no_initial_backup, mainPc, thrPc, shutdown_event, elapsed,
                   dueAt, jobLock, waveBy, firstWaveAt, sigInFlight>>
    /\ SchedFrame

\* the finally block of backup(): the stopped containers are started
JobRestart ==
    /\ jobPc = "backed_up"
    /\ jobStopped' = {}
    /\ jobPc' = "restarted"
    /\ UNCHANGED <<no_initial_backup, mainPc, thrPc, shutdown_event, elapsed,
                   dueAt, jobLock, jobRet, waveBy, firstWaveAt, sigInFlight>>
    /\ SchedFrame

\* the finally block of _run_backup_with_lock, and the return
JobReturn ==
    /\ jobPc = "restarted"
    /\ jobLock' = FALSE
    /\ jobPc' = "returned"
    /\ UNCHANGED <<no_initial_backup, mainPc, thrPc, shutdown_event, elapsed,
                   dueAt, jobStopped, jobRet, waveBy, firstWaveAt, sigInFlight>>
    /\ SchedFrame

\* run_backups returns in the main thread; the scheduler thread is started
MainStartThread ==
    /\ mainPc = "initial_wave"
    /\ jobPc = "returned"
    /\ mainPc' = "loop"
    /\ thrPc' = "setup"
    /\ jobPc' = "idle"
    /\ UNCHANGED <<no_initial_backup, shutdown_event, elapsed, dueAt, jobLock,
                   jobStopped, jobRet, waveBy, firstWaveAt, sigInFlight>>
    /\ SchedFrame

\* setup_scheduling: schedule.every(hours), the retention run, then the loop
ThreadSetup ==
    /\ thrPc = "setup"
    /\ dueAt' = elapsed + 1
    /\ thrPc' = "loop"
    /\ UNCHANGED <<no_initial_backup, mainPc, shutdown_event, elapsed, jobPc,
                   jobLock, jobStopped, jobRet, waveBy, firstWaveAt, sigInFlight>>
    /\ SchedFrame

\* schedule.run_pending() with the backup job due
ThreadRunPending ==
    /\ thrPc = "loop"
    /\ ~shutdown_event
    /\ elapsed >= dueAt
    /\ StartWave("scheduler")
    /\ dueAt' = elapsed + 1
    /\ thrPc' = "wave"
    /\ UNCHANGED <<no_initial_backup, mainPc, shutdown_event, elapsed, jobLock,
                   jobStopped>>
    /\ SchedFrame

\* run_backups returns in the scheduler thread
ThreadWaveDone ==
    /\ thrPc = "wave"
    /\ jobPc = "returned"
    /\ thrPc' = "loop"
    /\ jobPc' = "idle"
    /\ UNCHANGED <<no_initial_backup, mainPc, shutdown_event, elapsed, dueAt,
                   jobLock, jobStopped, jobRet, waveBy, firstWaveAt, sigInFlight>>
    /\ SchedFrame

\* while not shutdown_event.is_set() ends the loop of the scheduler thread
ThreadStop ==
    /\ thrPc = "loop"
    /\ shutdown_event
    /\ thrPc' = "stopped"
    /\ UNCHANGED <<no_initial_backup, mainPc, shutdown_event, elapsed, dueAt,
                   jobPc, jobLock, jobStopped, jobRet, waveBy, firstWaveAt,
                   sigInFlight>>
    /\ SchedFrame

\* a backup interval goes by
IntervalElapsed ==
    /\ mainPc \in {"initial_wave", "loop"}
    /\ elapsed < MaxIntervals
    /\ elapsed' = elapsed + 1
    /\ UNCHANGED <<no_initial_backup, mainPc, thrPc, shutdown_event, dueAt,
                   jobPc, jobLock, jobStopped, jobRet, waveBy, firstWaveAt,
                   sigInFlight>>
    /\ SchedFrame

\* handle_signal for SIGINT or SIGTERM: the event is set, nothing else
HandleSignal ==
    /\ mainPc \in {"initial_wave", "loop"}
    /\ ~shutdown_event
    /\ shutdown_event' = TRUE
    /\ sigInFlight' = JobInFlight
    /\ UNCHANGED <<no_initial_backup, mainPc, thrPc, elapsed, dueAt, jobPc,
                   jobLock, jobStopped, jobRet, waveBy, firstWaveAt>>
    /\ SchedFrame

\* the main loop sees the event; cleanup() sleeps and main returns
MainCleanup ==
    /\ mainPc = "loop"
    /\ shutdown_event
    /\ mainPc' = "exiting"
    /\ UNCHANGED <<no_initial_backup, thrPc, shutdown_event, elapsed, dueAt,
                   jobPc, jobLock, jobStopped, jobRet, waveBy, firstWaveAt,
                   sigInFlight>>
    /\ SchedFrame

\* the interpreter ends: the worker threads of the executor are joined, the
\* scheduler thread is a daemon thread and is not waited for
ProcessExit ==
    /\ mainPc = "exiting"
    /\ ~JobInFlight
    /\ mainPc' = "exited"
    /\ thrPc' = IF thrPc = "stopped" THEN thrPc ELSE "killed"
    /\ UNCHANGED <<no_initial_backup, shutdown_event, elapsed, dueAt, jobPc,
                   jobLock, jobStopped, jobRet, waveBy, firstWaveAt, sigInFlight>>
    /\ SchedFrame

InitSched ==
    /\ LockOff
    /\ MgrOff
    /\ PipeOff
    /\ lastOp = NoOp
    /\ DiscOff
    /\ CfgOff
    /\ ReqOff
    /\ EnvOff
    /\ DumpOff
    /\ TarOff
    /\ DockOff
    /\ no_initial_backup \in BOOLEAN
    /\ mainPc = "start"
    /\ thrPc = "none"
    /\ shutdown_event = FALSE
    /\ elapsed = 0
    /\ dueAt = 0
    /\ jobPc = "idle"
    /\ jobLock = FALSE
    /\ jobStopped = {}
    /\ jobRet = "unset"
    /\ waveBy = "none"
    /\ firstWaveAt = -1
    /\ sigInFlight = FALSE

NextSched ==
    \/ MainInitialBackup
    \/ JobLock
    \/ \E ok \in BOOLEAN : JobBackup(ok)
    \/ JobRestart
    \/ JobReturn
    \/ MainStartThread
    \/ ThreadSetup
    \/ ThreadRunPending
    \/ ThreadWaveDone
    \/ ThreadStop
    \/ IntervalElapsed
    \/ HandleSignal
    \/ MainCleanup
    \/ ProcessExit

SpecSched == InitSched /\ [][NextSched]_vars

\* ----------------------------------------------------------------- SpecTar
\* archive_utils.create_tar_gz. A file is "absent", "previous" (the complete
\* archive of an earlier call), "partial" or "complete".
MaxFiles == 3

TarFrame ==
    UNCHANGED <<lockVars, mgrVars, pipeVars, lastOp, discVars, cfgVars,
                reqVars, envVars, dumpVars, schedVars, dockVars>>

\* an exception: control goes to the except block
Raise(step) ==
    /\ failedAt' = step
    /\ tpc' = "handler"

\* source_dir.exists()
TarEnter(exists) ==
    /\ tpc = "entry"
    /\ IF exists
       THEN /\ tpc' = "prepare"
            /\ tarRet' = tarRet
       ELSE /\ tpc' = "done"
            /\ tarRet' = "False"
    /\ UNCHANGED <<finalFile, tmpFile, file_count, processed, failedAt>>
    /\ TarFrame

\* makedirs, _get_excluded_files and the walk that counts the files
TarPrepare(ok, n) ==
    /\ tpc = "prepare"
    /\ IF ok
       THEN /\ file_count' = n
            /\ tpc' = "open"
            /\ failedAt' = failedAt
       ELSE /\ file_count' = file_count
            /\ Raise("prepare")
    /\ UNCHANGED <<finalFile, tmpFile, processed, tarRet>>
    /\ TarFrame

\* tarfile.open(temp_output_file, 'w:gz'): the temporary file is created
\* unless the open itself fails
TarOpen(ok, created) ==
    /\ tpc = "open"
    /\ tmpFile' = IF created THEN "partial" ELSE tmpFile
    /\ IF ok /\ created
       THEN /\ tpc' = "adding"
            /\ failedAt' = failedAt
       ELSE Raise("open")
    /\ UNCHANGED <<finalFile, file_count, processed, tarRet>>
    /\ TarFrame

\* tar.add of one file
TarAdd(ok) ==
    /\ tpc = "adding"
    /\ processed < file_count
    /\ IF ok
       THEN /\ processed' = processed + 1
            /\ UNCHANGED <<tpc, failedAt>>
       ELSE /\ processed' = processed
            /\ Raise("add")
    /\ UNCHANGED <<finalFile, tmpFile, file_count, tarRet>>
    /\ TarFrame

\* the end of the with block: the archive is closed
TarClose(ok) ==
    /\ tpc = "adding"
    /\ processed = file_count
    /\ IF ok
       THEN /\ tmpFile' = "complete"
            /\ tpc' = "closed"
            /\ failedAt' = failedAt
       ELSE /\ tmpFile' = tmpFile
            /\ Raise("close")
    /\ UNCHANGED <<finalFile, file_count, processed, tarRet>>
    /\ TarFrame

\* shutil.move(temp_output_file, output_file): a rename within one directory
TarMove(ok) ==
    /\ tpc = "closed"
    /\ IF ok
       THEN /\ finalFile' = tmpFile
            /\ tmpFile' = "absent"
            /\ tpc' = "moved"
            /\ failedAt' = failedAt
       ELSE /\ UNCHANGED <<finalFile, tmpFile>>
            /\ Raise("move")
    /\ UNCHANGED <<file_count, processed, tarRet>>
    /\ TarFrame

\* the log line with os.path.getsize(output_file), and return True
TarReturn(ok) ==
    /\ tpc = "moved"
    /\ IF ok
       THEN /\ tarRet' = "True"
            /\ tpc' = "done"
            /\ failedAt' = failedAt
       ELSE /\ tarRet' = tarRet
            /\ Raise("log")
    /\ UNCHANGED <<finalFile, tmpFile, file_count, processed>>
    /\ TarFrame

\* as TarHandler, without the removal of the temporary file
TarHandler_NoUnlink ==
    /\ tpc = "handler"
    /\ tmpFile' = tmpFile
    /\ tarRet' = "False"
    /\ tpc' = "done"
    /\ UNCHANGED <<finalFile, file_count, processed, failedAt>>
    /\ TarFrame

\* except Exception: the temporary file is unlinked if it exists
TarHandler ==
    /\ tpc = "handler"
    /\ tmpFile' = "absent"
    /\ tarRet' = "False"
    /\ tpc' = "done"
    /\ UNCHANGED <<finalFile, file_count, processed, failedAt>>
    /\ TarFrame

InitTar ==
    /\ LockOff
    /\ MgrOff
    /\ PipeOff
    /\ lastOp = NoOp
    /\ DiscOff
    /\ CfgOff
    /\ ReqOff
    /\ EnvOff
    /\ DumpOff
    /\ SchedOff
    /\ DockOff
    /\ tpc = "entry"
    /\ finalFile \in {"absent", "previous"}
    /\ tmpFile = "absent"
    /\ file_count = 0
    /\ processed = 0
    /\ failedAt = "none"
    /\ tarRet = "unset"

NextTar ==
    \/ \E exists \in BOOLEAN : TarEnter(exists)
    \/ \E ok \in BOOLEAN, n \in 0..MaxFiles : TarPrepare(ok, n)
    \/ \E ok \in BOOLEAN, created \in BOOLEAN : TarOpen(ok, created)
    \/ \E ok \in BOOLEAN : TarAdd(ok)
    \/ \E ok \in BOOLEAN : TarClose(ok)
    \/ \E ok \in BOOLEAN : TarMove(ok)
    \/ \E ok \in BOOLEAN : TarReturn(ok)
    \/ TarHandler

SpecTar == InitTar /\ [][NextTar]_vars

\* ---------------------------------------------------------------- SpecDock
\* docker_utils: the client get_docker_client returns, called directly.
\* status is the set of the running containers.
DockContainers == {"web", "db", "cache"}

\* ALLOWED_OPERATIONS['containers']
AllowedOperations == {"list", "get", "logs", "exec_run"}
\* the other methods of client.containers
CollectionMutations == {"run", "create", "prune"}
\* the methods of a container object that change its state
ContainerMutations == {"stop", "start", "restart"}

DockFrame ==
    UNCHANGED <<lockVars, mgrVars, pipeVars, lastOp, discVars, cfgVars,
                reqVars, envVars, dumpVars, schedVars, tarVars>>

Call(op, target, outcome) ==
    [op |-> op, target |-> target, outcome |-> outcome,
     existingBefore |-> existing, statusBefore |-> status]

\* RestrictedCollection.__getattr__: the attribute of the wrapped
\* collection, or PermissionError; without the wrapper, the attribute
Permitted(op) == ~read_only \/ op \in AllowedOperations

\* get_running_containers: client.containers.list(filters={"status":
\* "running"}) returns the container objects of the Docker SDK
GetRunningContainers ==
    /\ Permitted("list")
    /\ obtained' = obtained \cup status
    /\ lastCall' = Call("list", "none", "ok")
    /\ UNCHANGED <<read_only, existing, status>>
    /\ DockFrame

\* get_container_by_id: client.containers.get
GetContainerById(c) ==
    /\ Permitted("get")
    /\ IF c \in existing
       THEN /\ obtained' = obtained \cup {c}
            /\ lastCall' = Call("get", c, "ok")
       ELSE /\ obtained' = obtained
            /\ lastCall' = Call("get", c, "NotFound")
    /\ UNCHANGED <<read_only, existing, status>>
    /\ DockFrame

\* client.containers.prune (run and create likewise start from the
\* collection): refused by the wrapper, done by the plain client
CollectionPrune ==
    /\ IF Permitted("prune")
       THEN /\ existing' = status
            /\ lastCall' = Call("prune", "none", "ok")
       ELSE /\ existing' = existing
            /\ lastCall' = Call("prune", "none", "PermissionError")
    /\ UNCHANGED <<read_only, status, obtained>>
    /\ DockFrame

\* container.stop, container.start, container.restart on an object that
\* list or get returned: a method of the SDK's Container, which the wrapper
\* is not part of; the daemon carries it out
ContainerCall(c, op) ==
    /\ c \in obtained
    /\ IF c \notin existing
       THEN /\ status' = status
            /\ lastCall' = Call(op, c, "NotFound")
       ELSE /\ status' = IF op = "stop" THEN status \ {c} ELSE status \cup {c}
            /\ lastCall' = Call(op, c, "ok")
    /\ UNCHANGED <<read_only, existing, obtained>>
    /\ DockFrame

InitDock ==
    /\ LockOff
    /\ MgrOff
    /\ PipeOff
    /\ lastOp = NoOp
    /\ DiscOff
    /\ CfgOff
    /\ ReqOff
    /\ EnvOff
    /\ DumpOff
    /\ SchedOff
    /\ TarOff
    /\ read_only \in BOOLEAN
    /\ existing = DockContainers
    /\ status \in SUBSET DockContainers
    /\ obtained = {}
    /\ lastCall = NoCall

NextDock ==
    \/ GetRunningContainers
    \/ \E c \in DockContainers : GetContainerById(c)
    \/ CollectionPrune
    \/ \E c \in DockContainers, op \in ContainerMutations : ContainerCall(c, op)

SpecDock == InitDock /\ [][NextDock]_vars

\* ------------------------------------------------- ServiceBackup.backup
\* A container is its name, the part of the name before the first "_"
\* ("" when there is none), the database words its image name contains,
\* and its backup.hot label.
MaxContainers == 2

Web == [name |-> "web", prefix |-> "", image |-> {}, hot |-> FALSE]
Api == [name |-> "api", prefix |-> "", image |-> {}, hot |-> TRUE]
Postgres == [name |-> "pg", prefix |-> "", image |-> {"postgres"}, hot |-> FALSE]
Mongo == [name |-> "mongo", prefix |-> "", image |-> {"mongo"}, hot |-> FALSE]
BackupSelf == [name |-> "backup_1", prefix |-> "backup", image |-> {}, hot |-> FALSE]
ContainerKinds == {Web, Api, Postgres, Mongo, BackupSelf}

BackupMethods == {"mounts", "container_cp", "none"}

\* _identify_db_containers: the image name holds a database word
DbImageWords == {"postgres", "mysql", "mariadb", "mongo", "redis", "sqlite"}
IsDbContainer(c) == c.image \cap DbImageWords # {}

\* _check_hot_backup_support
HotImageWords == {"postgres", "mysql", "mariadb", "mongodb", "redis"}
CheckHotBackupSupport(c) == c.hot \/ c.image \cap HotImageWords # {}

\* _is_current_container: by host name, or by BACKUP_SERVICE_NAMES
BackupServiceNames == {"container-backup", "backup"}
IsCurrentContainer(c) ==
    \/ c.name = hostname
    \/ c.name \in BackupServiceNames
    \/ c.prefix \in BackupServiceNames

Indices == 1..Len(containers)
\* self.db_containers, self.app_containers: positions in self.containers
DbContainers == SelectSeq([i \in Indices |-> i], LAMBDA i : IsDbContainer(containers[i]))
AppContainers == SelectSeq([i \in Indices |-> i], LAMBDA i : ~IsDbContainer(containers[i]))

Range(q) == {q[i] : i \in DOMAIN q}
Reverse(q) == [i \in 1..Len(q) |-> q[Len(q) + 1 - i]]
\* ok: the step produced its artifact
Event(e, c) == [ev |-> e, c |-> c, ok |-> TRUE]

\* the containers the loop of _stop_containers stops: not the current
\* container, no hot backup support, status "running" as listed
NeedsStop(i) ==
    /\ ~IsCurrentContainer(containers[i])
    /\ ~CheckHotBackupSupport(containers[i])

PipeFrame ==
    /\ UNCHANGED <<now, lockFile, backup_dir, selfNames, excludeNames,
                   hostname, pc, wService, wPid, wEntry, result, lkTime,
                   bkTime, bkOutcome, acquired, seen>>
    /\ UNCHANGED mgrVars
    /\ UNCHANGED auxVars
    /\ UNCHANGED <<containers, cfgRequiresStopping, backup_method,
                   cfgDatabaseStopping, cfgFilesStopping>>

\* backup(): up to the decision whether to stop containers
BackupEnter ==
    /\ ppc = "idle"
    /\ requires_stopping' = (cfgRequiresStopping \/ backup_method = "container_cp")
    /\ runningAtEntry' = running
    /\ success' = TRUE
    /\ stopped_containers' = <<>>
    /\ dbTodo' = DbContainers
    /\ success_count' = 0
    /\ ppc' = IF requires_stopping' THEN "stop" ELSE "dump"
    /\ UNCHANGED <<running, trace, retval, archives>>
    /\ PipeFrame

\* as StopContainers, were the loop reached and the handler to return
\* without restarting what the loop had stopped
StopContainers_NoRestart ==
    /\ ppc = "stop"
    /\ running' = running \ {i \in Indices : NeedsStop(i)}
    /\ stopped_containers' = <<>>
    /\ ppc' = "dump"
    /\ UNCHANGED <<runningAtEntry, requires_stopping, success, dbTodo,
                   success_count, trace, retval, archives>>
    /\ PipeFrame

\* _stop_containers: self._get_stack_name() is no attribute of
\* ServiceBackup, so the call raises AttributeError before the loop; the
\* handler restarts the empty list and returns []. No container is stopped.
StopContainers ==
    /\ ppc = "stop"
    /\ running' = running
    /\ stopped_containers' = <<>>
    /\ ppc' = "dump"
    /\ UNCHANGED <<runningAtEntry, requires_stopping, success, dbTodo,
                   success_count, trace, retval, archives>>
    /\ PipeFrame

\* _backup_databases: one container of the loop
BackupDatabases ==
    /\ ppc = "dump"
    /\ dbTodo # <<>>
    /\ \E ok \in BOOLEAN :
          /\ success_count' = IF ok THEN success_count + 1 ELSE success_count
          /\ trace' = Append(trace, [Event("dump", Head(dbTodo)) EXCEPT !.ok = ok])
    /\ dbTodo' = Tail(dbTodo)
    /\ UNCHANGED <<ppc, running, runningAtEntry, requires_stopping,
                   stopped_containers, success, retval, archives>>
    /\ PipeFrame

\* _backup_databases returns; it is called only if there is a database
BackupDatabasesReturn ==
    /\ ppc = "dump"
    /\ dbTodo = <<>>
    /\ success' = IF DbContainers = <<>> THEN success
                  ELSE success /\ success_count > 0
    /\ success_count' = 0
    /\ ppc' = "files"
    /\ UNCHANGED <<running, runningAtEntry, requires_stopping,
                   stopped_containers, dbTodo, trace, retval, archives>>
    /\ PipeFrame

\* _backup_bind_mounts reads mount.get('Source') from mounts whose key is
\* 'source': every mount is skipped and the result is True.
\* _backup_container_data: False without disk space; with an application
\* container, file_backup.backup_container is no attribute of FileBackup
\* and the AttributeError leaves backup() through its finally.
BackupFiles ==
    /\ ppc = "files"
    /\ trace' = Append(trace, [Event("files", 0) EXCEPT !.ok = FALSE])
    /\ IF backup_method = "mounts"
       THEN /\ success' = success
            /\ ppc' = "archive"
       ELSE \E space \in BOOLEAN :
               IF ~space
               THEN /\ success' = FALSE
                    /\ ppc' = "archive"
               ELSE IF AppContainers = <<>>
                    THEN /\ success' = success
                         /\ ppc' = "archive"
                    ELSE /\ success' = FALSE
                         /\ ppc' = "finally"
    /\ UNCHANGED <<running, runningAtEntry, requires_stopping,
                   stopped_containers, dbTodo, success_count, retval, archives>>
    /\ PipeFrame

\* _create_archive, if anything was backed up
CreateArchive ==
    /\ ppc = "archive"
    /\ IF success /\ (DbContainers # <<>> \/ backup_method # "none")
       THEN /\ \E ok \in BOOLEAN :
                  /\ trace' = Append(trace, [Event("archive", 0) EXCEPT !.ok = ok])
                  /\ success' = ok
                  /\ archives' = IF ok THEN archives \cup {ArchiveFile("app", now)}
                                 ELSE archives
       ELSE UNCHANGED <<trace, success, archives>>
    /\ ppc' = "finally"
    /\ UNCHANGED <<running, runningAtEntry, requires_stopping,
                   stopped_containers, dbTodo, success_count, retval>>
    /\ PipeFrame

\* the finally block and the return: _start_containers calls start() on
\* the stopped containers in the order of the list; each ends up running
\* or not
BackupReturn ==
    /\ ppc = "finally"
    /\ \E started \in SUBSET Range(stopped_containers) :
          running' = running \cup started
    /\ trace' = trace \o [i \in 1..Len(stopped_containers) |->
                            Event("start", stopped_containers[i])]
    /\ retval' = IF success THEN "true" ELSE "false"
    /\ ppc' = "done"
    /\ UNCHANGED <<runningAtEntry, requires_stopping, stopped_containers,
                   success, dbTodo, success_count, archives>>
    /\ PipeFrame

\* BACKUP_DIR: the default, or a directory of the operator's choice
BackupDirs == {"/backups", "/data/backups"}

ContainerLists == UNION {[1..n -> ContainerKinds] : n \in 1..MaxContainers}

\* one service; its containers were listed as running, the first of them
\* may have exited since
InitPipe ==
    /\ now = StartTime
    /\ lockFile = [s \in Services |-> NoFile]
    /\ archives = {}
    /\ backup_dir \in BackupDirs
    /\ selfNames = {}
    /\ excludeNames = {}
    /\ hostname = "bkhost"
    /\ pc = [w \in AllWorkers |-> "idle"]
    /\ wService = [w \in AllWorkers |->
                     IF w \in Contenders THEN "app" ELSE TaskService[w]]
    /\ wPid = [w \in AllWorkers |-> MgrPid]
    /\ wEntry = [w \in AllWorkers |-> "with_lock"]
    /\ WorkerFieldsInit
    /\ MgrOff
    /\ ppc = "idle"
    /\ containers \in ContainerLists
    /\ running \in {1..Len(containers), 2..Len(containers)}
    /\ runningAtEntry = {}
    /\ cfgRequiresStopping \in BOOLEAN
    /\ cfgDatabaseStopping \in BOOLEAN
    /\ cfgFilesStopping \in BOOLEAN
    /\ backup_method \in BackupMethods
    /\ requires_stopping = FALSE
    /\ stopped_containers = <<>>
    /\ success = TRUE
    /\ dbTodo = <<>>
    /\ success_count = 0
    /\ trace = <<>>
    /\ retval = "none"
    /\ AuxOff

NextPipe ==
    \/ BackupEnter
    \/ StopContainers
    \/ BackupDatabases
    \/ BackupDatabasesReturn
    \/ BackupFiles
    \/ CreateArchive
    \/ BackupReturn

SpecPipe == InitPipe /\ [][NextPipe]_vars

\* ------------------------------------------------------------- predicates
InBackup(w) == pc[w] = "backup"
Returned(w) == pc[w] = "done"
\* the lock record of service s is one that worker w wrote
HoldsRecordOf(s, w) == lockFile[s].kind = "record" /\ lockFile[s].writer = w

TypeOKLock ==
    /\ pc \in [AllWorkers -> {"idle", "queued", "ready", "cl_exists", "cl_read",
                               "cl_remove", "cl_handler", "cl_open", "cl_write",
                               "locked", "backup", "rm_exists", "rm_remove", "done"}]
    /\ result \in [AllWorkers -> {"none", "true", "false", "raised"}]

\* a lock that the spec calls stale was read: malformed, too old, or its
\* pid is not alive
SawStaleLock(w) ==
    \/ seen[w].kind \in {"empty", "garbage", "json_badshape"}
    \/ seen[w].kind = "record" /\ (seen[w].old \/ seen[w].pid \notin AlivePids)

\* a well-formed lock, at most 3 hours old, of a live process was read
SawLiveLock(w) ==
    /\ seen[w].kind = "record"
    /\ ~seen[w].old
    /\ seen[w].pid \in AlivePids

\* C1: two workers backing up the same service are never both inside
\* service.backup() with the service lock acquired.
C1_AtMostOnePipeline ==
    \A w1, w2 \in AllWorkers :
        (w1 # w2 /\ Svc(w1) = Svc(w2))
            => ~(acquired[w1] /\ InBackup(w1) /\ acquired[w2] /\ InBackup(w2))

\* C2: a worker whose _create_lock read a well-formed lock, at most 3 hours
\* old, of a live process (its own included) is refused: it returns without
\* the lock and has not touched the lock file.
C2_LiveLockRefuses ==
    \A w \in AllWorkers :
        SawLiveLock(w) => (Returned(w) /\ result[w] = "false" /\ ~acquired[w])

\* C3: a worker whose _create_lock read a malformed, too old or dead-pid
\* lock ends up with the lock: it never returns without having written
\* its own record.
C3_StaleLockReplaced ==
    \A w \in AllWorkers :
        (SawStaleLock(w) /\ Returned(w)) => acquired[w]

NamedByLock(a) ==
    /\ a.dir = backup_dir
    /\ lockFile[a.service].kind = "record"
    /\ lockFile[a.service].timestamp = a.ts

\* C5: no step deletes an archive whose file name is the backup_name of a
\* lock record that exists in <backup_dir>/locks.
C5_LockedArchiveKept ==
    [][\A a \in archives : NamedByLock(a) => a \in archives']_vars

\* C10: while the retention pass of a wave runs, every task of the wave
\* has returned and no lock record written by a task of the wave is left.
C10_RetentionAfterWave ==
    mpc = "retention" =>
        \A t \in Submitted : Returned(t) /\ ~HoldsRecordOf(Svc(t), t)

\* the retention pass of a wave of two pipelines, both of which took their
\* lock, has deleted a file
C10_Witness ==
    /\ mpc = "retention"
    /\ removedCount > 0
    /\ \A t \in WaveTasks : t \in Submitted /\ acquired[t]

\* the containers of the service that the stop phase is to stop, in the
\* order of self.containers
NeedStopSeq == SelectSeq([i \in Indices |-> i], NeedsStop)
EventsOf(e) == SelectSeq(trace, LAMBDA x : x.ev = e)
ContainersOf(e) == [i \in 1..Len(EventsOf(e)) |-> EventsOf(e)[i].c]

\* C6: when backup() has returned, the containers of the service that are
\* running are those that were running when it was called.
C6_RunningSetRestored ==
    ppc = "done" => running = runningAtEntry

\* backup() returned False for a service that was to be stopped and has a
\* running container that the stop phase does not skip
C6_Witness ==
    /\ ppc = "done"
    /\ retval = "false"
    /\ requires_stopping
    /\ \E i \in Indices : NeedsStop(i) /\ i \in runningAtEntry

\* C8: when backup() has returned from a service that was to be stopped,
\* its containers were stopped in the reverse of the list order and the
\* stopped containers were started in the list order.
C8_StopReverseStartForward ==
    (ppc = "done" /\ requires_stopping) =>
        /\ ContainersOf("stop") = Reverse(NeedStopSeq)
        /\ ContainersOf("start") = NeedStopSeq

StepRank(e) ==
    CASE e = "stop" -> 1
      [] e = "dump" -> 2
      [] e = "files" -> 3
      [] e = "archive" -> 4
      [] e = "start" -> 5

SelfListed(n) == Lower(n) \in {Lower(m) : m \in selfNames}

\* C11: backup() is never invoked for a service listed in
\* BACKUP_SERVICE_NAMES, and when run_backups has returned every other
\* requested, non-excluded service has a result that, if True, comes from
\* its backup() and not from a skip.
C11_SelfServiceSkipped ==
    /\ \A w \in AllWorkers :
          SelfListed(Svc(w)) => (~InBackup(w) /\ bkOutcome[w] = "none")
    /\ (mpc = "done" /\ Requested # {}) =>
          \A s \in Requested :
             (~SelfListed(s) /\ ~IsExcludedService(s)) =>
                /\ results[s] # "none"
                /\ results[s] = "true" => bkOutcome[TaskOf(s)] # "none"

\* run_backups has returned: the listed service app_db was left alone and
\* app has been backed up
C11_Witness ==
    /\ mpc = "done"
    /\ selfNames = {"app_db"}
    /\ results["app_db"] = "none"
    /\ pc[TaskOf("app_db")] = "idle"
    /\ results["app"] = "true"
    /\ bkOutcome[TaskOf("app")] = "archived"

\* the worker found the lock of its service held by another live process
LockHeld(t) ==
    /\ SawLiveLock(t)
    /\ seen[t].pid # wPid[t]
    /\ ~acquired[t]

\* C12: when run_backups has returned, a service whose lock was held by
\* another live process has no result False, and if every other service
\* succeeded the exit status of the backup command is 0.
C12_LockHeldNotFailure ==
    mpc = "done" =>
        \A t \in Submitted :
           LockHeld(t) =>
              /\ results[Svc(t)] # "false"
              /\ (\A u \in Submitted \ {t} : results[Svc(u)] = "true")
                    => ExitStatus = 0

\* the names the backup command was asked for: --services, or every
\* discovered service
RequestedNames ==
    IF serviceArg # {} THEN serviceArg
    ELSE {s \in Services : ~IsExcludedService(s)}

\* C13: when run_backups has returned, the exit status is 0 if and only if
\* every requested name, the backup service itself apart, is a service whose
\* backup returned success.
C13_ExitZeroIffAllSucceeded ==
    mpc = "done" =>
        (ExitStatus = 0 <=>
            \A n \in RequestedNames :
               SelfListed(n) \/ (n \in Services /\ results[n] = "true"))

\* C14: when backup() has returned and a dump or a file backup produced
\* its artifact, the result is True unless writing the archive failed.
C14_OneArtifactSucceeds ==
    (/\ ppc = "done"
     /\ \E i \in DOMAIN trace : trace[i].ev \in {"dump", "files"} /\ trace[i].ok
     /\ ~\E i \in DOMAIN trace : trace[i].ev = "archive" /\ ~trace[i].ok)
    => retval = "true"


\* ------------------------------------------------- retention operations
\* the archives of service s among a set of files: the names the filename
\* pattern parses with service s
ArchivesOf(files, s) ==
    {a \in files : a.dir = backup_dir /\ ValidName(a) /\ a.service = s}

\* C15: apply_time_based_retention(s, N) with N > 0 keeps exactly the
\* archives of s whose timestamp is at or after now - N days, plus those in
\* the active set, deletes every other archive of s, and returns the number
\* of files it deleted.
C15_TimeBasedKeepsRecent ==
    (lastOp.kind = "time" /\ lastOp.n > 0) =>
        LET mine == ArchivesOf(lastOp.before, lastOp.s)
        IN /\ archives \cap mine =
                 {a \in mine : a.ts >= now - lastOp.n * HoursPerDay \/ a \in activeSet}
           /\ removedCount = Cardinality(lastOp.before \ archives)
\* days=7 for app: the archive exactly 7 days old stays, the older one goes
C15_Witness ==
    /\ lastOp.kind = "time" /\ lastOp.s = "app" /\ lastOp.n = DefaultRetentionDays
    /\ activeSet = {}
    /\ RetFile("app", now - DefaultRetentionDays * HoursPerDay) \in archives
    /\ RetFile("app", DefaultRetentionDays * HoursPerDay) \in lastOp.before \ archives
    /\ removedCount = 1

\* C16: apply_count_based_retention(s, N) with N > 0 keeps the N archives of
\* s with the most recent timestamps and deletes every other archive of s
\* that is not active; when s has at most N archives nothing is deleted.
C16_CountBasedKeepsNewest ==
    (lastOp.kind = "count" /\ lastOp.n > 0) =>
        LET mine == ArchivesOf(lastOp.before, lastOp.s)
        IN /\ archives \cap mine =
                 {a \in mine : \/ Cardinality({b \in mine : b.ts > a.ts}) < lastOp.n
                               \/ a \in activeSet}
           /\ Cardinality(mine) <= lastOp.n => lastOp.before \subseteq archives

\* ISO year of a day: week 1 of 2025 begins on Monday 2024-12-30
IsoYear(d) == IF EpochWeek + d \div 7 <= WeeksInYear THEN EpochYear ELSE EpochYear + 1
IsoWeekKey(a) == IsoYear(DayKey(a)) * 100 + IsoWeek(DayKey(a))
\* a is the newest of its bucket, one of the n most recent buckets of m
NewestOfRecent(a, m, key, n) ==
    /\ key[a] \in TopKeys({key[b] : b \in m}, n)
    /\ \A b \in m : key[b] = key[a] => a.ts >= b.ts

\* C17: after apply_mixed_retention(s, daily, weekly, monthly) with no
\* active locks at most daily+weekly+monthly archives of s remain, each the
\* newest of its day, ISO year-week or month, the bucket being among the
\* most recent `daily` days, `weekly` ISO weeks or `monthly` months of s.
C17_MixedKeepsBucketNewest ==
    (lastOp.kind = "mixed" /\ activeSet = {}) =>
        LET mine == ArchivesOf(lastOp.before, lastOp.s)
            left == archives \cap mine
        IN /\ Cardinality(left) <= lastOp.daily + lastOp.weekly + lastOp.monthly
           /\ \A a \in left :
                 \/ NewestOfRecent(a, mine, [b \in mine |-> DayKey(b)], lastOp.daily)
                 \/ NewestOfRecent(a, mine, [b \in mine |-> IsoWeekKey(b)], lastOp.weekly)
                 \/ NewestOfRecent(a, mine, [b \in mine |-> MonthKey(b)], lastOp.monthly)

\* C18: at a fixed current time, time-based retention with days=N followed
\* by days=M, 0 < M <= N, for the same service leaves the archive set that
\* days=M alone leaves; with M = N the second call changes nothing.
C18_TimeBasedMonotone ==
    [][(/\ lastOp.kind = "time" /\ lastOp'.kind = "time"
        /\ lastOp'.s = lastOp.s
        /\ 0 < lastOp'.n /\ lastOp'.n <= lastOp.n)
       => /\ archives' = lastOp.before
                \ TimeBasedRemovedIn(lastOp.before, lastOp.s, lastOp'.n, activeSet)
          /\ lastOp'.n = lastOp.n => archives' = archives]_vars
\* days=7, which removed an archive, then days=1, which removed another
C18_Witness ==
    /\ lastOp.kind = "time" /\ lastOp.s = "app"
    /\ lastOp.prevDays = DefaultRetentionDays /\ lastOp.prevRemoved = 1
    /\ lastOp.n = 1 /\ removedCount >= 1
    /\ RetFile("app", now - HoursPerDay) \in archives

\* C19: under every retention policy a file of the backup directory whose
\* name the filename pattern does not parse is never deleted and never makes
\* the operation raise.
C19_InvalidNamesSkipped ==
    lastOp.kind # "none" =>
        /\ \A a \in lastOp.before : ~ValidName(a) => a \in archives
        /\ ~lastOp.raised


\* ---------------------------------------------------------- service names
\* the stacks of the dict whose name followed by "_" begins the container name
MatchingStacks == {stacks[i] : i \in {j \in DOMAIN stacks : StartsWithStack(container.name, stacks[j])}}
Unlabelled == \A i \in DOMAIN LabelKeys : container.labels[i] = NoLabel

\* C20: a container with none of the three labels whose name starts with
\* several stack names followed by "_" is assigned to the longest of them,
\* whatever the order of the stacks.
C20_LongestStackPrefix ==
    (dpc = "done" /\ Unlabelled /\ MatchingStacks # {}) =>
        /\ service_name \in MatchingStacks
        /\ \A st \in MatchingStacks : Len(st) <= Len(service_name)


\* ------------------------------------------------------------ configuration
\* a source sets a key for service n: it holds an entry for n, under the
\* name as written or, where the code lowercases the name, under that, and
\* the entry has the key
SetsType(name, n) ==
    CASE name = "default" -> TRUE
      [] name = "builtin" -> BuiltinConfigs[Lower(n)].type # Absent
      [] name = "file" -> cfgLoaded.file[n].type # Absent \/ cfgLoaded.file[Lower(n)].type # Absent
      [] name = "env" -> cfgLoaded.env[Lower(n)].type # Absent
      [] OTHER -> cfgLoaded.custom[n].type # Absent
SetsCred(name, n, k) ==
    CASE name = "default" -> FALSE
      [] name = "builtin" -> BuiltinConfigs[Lower(n)].m[k] # Absent
      [] name = "file" -> cfgLoaded.file[n].m[k] # Absent \/ cfgLoaded.file[Lower(n)].m[k] # Absent
      [] name = "env" -> cfgLoaded.env[Lower(n)].m[k] # Absent
      [] OTHER -> cfgLoaded.custom[n].m[k] # Absent
\* defaults, built-in template, file, environment, custom: later wins
Precedence == <<"default", "builtin", "file", "env", "custom">>
Highest(setters) == Precedence[CHOOSE i \in setters : \A j \in setters : j <= i]

\* C21: for every service name, a key that sources set has in the returned
\* config the value of the highest-precedence source that sets it, and a key
\* of the nested map that only a lower-precedence source sets is kept.
C21_HighestPrecedenceWins ==
    cpc = "done" =>
        /\ config.type =
              Highest({i \in DOMAIN Precedence : SetsType(Precedence[i], cfgService)})
        /\ \A k \in CredKeys :
              LET setters == {i \in DOMAIN Precedence : SetsCred(Precedence[i], cfgService, k)}
              IN setters # {} => config.m[k] = Highest(setters)


\* ---------------------------------------------------------- registry calls
\* the attempts before the last all failed with a retried exception
EarlierFailed ==
    \A i \in 1..(Len(attempts) - 1) : attempts[i].outcome \in Failures
ReqSafe ==
    /\ Len(attempts) <= ManualRetries + 1
    /\ \A k \in DOMAIN slept : slept[k] = Delay(k - 1)
    /\ EarlierFailed
    /\ rpc = "request" => Len(slept) = Len(attempts)
    /\ rpc = "done" =>
          /\ response \in {"cached", "parsed", "None"}
          /\ response = "parsed" <=>
                (attempts # <<>> /\ attempts[Len(attempts)].outcome = "ok")
          /\ (Len(attempts) = ManualRetries + 1
                /\ attempts[Len(attempts)].outcome # "ok") => response = "None"

C23_ResolveIdempotent == epc = "done" => resolvedAgain = resolved_vars


\* ------------------------------------------------------------ database dumps
\* the credential keys the flavor would put on the command line
PlacedKeys ==
    CASE db_type = "postgres" -> PostgresKeys(credentials)
      [] db_type = "mysql" -> MysqlKeys(credentials)
      [] db_type = "mongodb" -> MongodbKeys(credentials)
      [] OTHER -> IF rdbFile THEN {} ELSE RedisKeys(credentials)

C25_BadPortRejected ==
    (qpc = "done" /\ credentials.port # NoPort /\ ~ValidatePort(credentials.port))
    => (~executed /\ dumpRet = "False")


\* ------------------------------------------------------------ schedule mode
\* C26: if SIGINT or SIGTERM arrives while a pipeline is in flight in
\* schedule mode, the process does not exit before the pipeline has restarted
\* what it stopped and released its lock, and that pipeline returns False.
C26_SignalledPipelineFails ==
    /\ mainPc = "exited" => (~JobInFlight /\ ~jobLock /\ jobStopped = {})
    /\ (sigInFlight /\ jobPc \in {"returned", "idle"}) => jobRet = "False"

\* C29: with --no-initial-backup no wave runs at startup; the first wave
\* runs once the first backup interval has elapsed.
C29_NoInitialBackup ==
    (no_initial_backup /\ firstWaveAt # -1) => firstWaveAt >= 1


\* C27: the pipeline enters the stop phase if and only if the service's
\* config has database.requires_stopping or files.requires_stopping true.
C27_StopPhaseIffConfigured ==
    ppc \notin {"off", "idle"} =>
        (requires_stopping <=> (cfgDatabaseStopping \/ cfgFilesStopping))


\* the containers the claim protects: the backup's own container, a
\* container labelled backup.hot=true, an image of a database family
DbFamilies == {"postgres", "mysql", "mariadb", "mongo", "redis"}
Protected(c) ==
    \/ IsCurrentContainer(c)
    \/ c.hot
    \/ c.image \cap DbFamilies # {}

\* C28: whatever the stopping configuration, the pipeline stops neither the
\* backup's own container, nor a container labelled backup.hot=true, nor a
\* container whose image is of a known database family.
C28_ProtectedNeverStopped ==
    ppc \notin {"off", "idle"} =>
        \A i \in Indices :
            (Protected(containers[i]) /\ i \in runningAtEntry) => i \in running

\* the stop phase was entered and left with a running container of each
\* protected kind in the service
C28_Witness ==
    /\ ppc \in {"dump", "done"}
    /\ requires_stopping
    /\ \E i \in runningAtEntry :
          /\ containers[i].image \cap DbFamilies # {}
          /\ i \in running
    /\ \E i \in runningAtEntry :
          /\ IsCurrentContainer(containers[i]) \/ containers[i].hot
          /\ i \in running


C31_ReadOnlyRejectsMutation ==
    (read_only /\ lastCall.op \in CollectionMutations \cup ContainerMutations)
        => /\ lastCall.outcome = "PermissionError"
           /\ status = lastCall.statusBefore
           /\ existing = lastCall.existingBefore


\* C32: when stopping is required, every running container of the service
\* that is neither the backup's own container nor capable of a hot backup
\* is stopped while the dumps, the file backup and the archive step run,
\* and has been started again when backup() returns.
C32_StoppedThenStarted ==
    /\ (requires_stopping /\ ppc \in {"dump", "files", "archive"}) =>
          \A i \in runningAtEntry : NeedsStop(i) => i \notin running
    /\ (requires_stopping /\ ppc = "done") =>
          \A i \in runningAtEntry :
              NeedsStop(i) => i \in Range(ContainersOf("start"))


\* C33: the lock record a worker wrote for a service changes or disappears
\* only by that worker's own release: no other worker overwrites it or
\* removes it, neither while acquiring nor while releasing.
C33_HolderSoleWriter ==
    [][\A s \in Services, w \in AllWorkers :
          (HoldsRecordOf(s, w) /\ lockFile'[s] # lockFile[s])
              => (pc[w] = "rm_remove" /\ pc'[w] = "done")]_vars


\* the pipeline of a submitted task has begun
Started(t) == pc[t] \notin {"idle", "queued"}
PriorityOf(t) == priority[TaskService[t]]

\* C34: the services are handed to the pool in non-decreasing priority
\* order, and with a single worker the pipeline of a service of lower
\* priority number has returned before that of a higher number begins.
C34_PriorityOrder ==
    /\ \A i, j \in DOMAIN queue :
          i < j => PriorityOf(queue[i]) <= PriorityOf(queue[j])
    /\ \A t \in Submitted : \A i \in DOMAIN queue :
          Started(t) => PriorityOf(t) <= PriorityOf(queue[i])
    /\ max_workers = 1 =>
          \A t, u \in Submitted :
              (PriorityOf(t) < PriorityOf(u) /\ Started(u)) => pc[t] = "done"

\* one worker, two services of different priority: the one discovered
\* last has returned and the other is inside backup()
C34_Witness ==
    /\ max_workers = 1
    /\ PriorityOf("t2") < PriorityOf("t1")
    /\ pc["t2"] = "done"
    /\ pc["t1"] = "backup"


\* C35: a retention call for service s removes only archives whose file
\* name parses to the service name s, never an archive of another service,
\* one whose name begins with s and "_" included.
C35_OnlyOwnArchivesRemoved ==
    lastOp.kind # "none" =>
        \A a \in lastOp.before \ archives : a.service = lastOp.s


\* C36: while a worker is inside backup() holding the lock record it wrote,
\* the timestamp of the backup_name in the record is the timestamp backup()
\* took for the name of its archive.
C36_LockNamesArchive ==
    \A w \in AllWorkers :
        (InBackup(w) /\ HoldsRecordOf(Svc(w), w))
            => lockFile[Svc(w)].timestamp = bkTime[w]


\* C37: backup() returns True only if the run has created an archive of
\* the service in the configured backup directory.
C37_TrueMeansArchiveInBackupDir ==
    (ppc = "done" /\ retval = "true") =>
        \E a \in archives : a.dir = backup_dir /\ a.service = "app"


\* C38: get_service_config leaves the stored file, environment and custom
\* configurations as they were loaded.
C38_StoredConfigsUnchanged ==
    cpc = "done" =>
        /\ file_configs = cfgLoaded.file
        /\ env_configs = cfgLoaded.env
        /\ custom_configs = cfgLoaded.custom


\* C39: once the shutdown event is set no backup wave and no retention pass
\* is started, the signal having arrived during the initial backup or later.
C39_NothingStartsAfterShutdown ==
    [][shutdown_event =>
          /\ ~(jobPc # "queued" /\ jobPc' = "queued")
          /\ ~(thrPc = "setup" /\ thrPc' = "loop")]_vars

====
